---- MODULE Spec2Model ----
(***************************************************************************)
(* Entity-centric memory engine: record codec (entity-templates.ts),       *)
(* Entity Store (entity-manager.ts), Capture Engine (capture-engine.ts)    *)
(* and Importance Scorer (importance-scorer.ts).                           *)
(*                                                                         *)
(* Text is modelled at the level the code inspects it: a file is the       *)
(* sequence of its lines, a line is a tuple whose first component is the   *)
(* syntactic form the parser tests for (prefix "# ", "## ", "- **", ...),  *)
(* names are sequences of characters, and a fact line is a sequence of     *)
(* tokens (plain words, "(c=0.70)", "[source](path)", "(date - date)").    *)
(*                                                                         *)
(* A value that a method computes once and then uses several times (a      *)
(* `const` of the code) is named by a variable bound over a one-element    *)
(* set, `CHOOSE r \in { body(x) : x \in {value} } : TRUE`, which is body   *)
(* applied to that value.                                                  *)
(***************************************************************************)
EXTENDS Integers, Sequences, FiniteSets, TLC

\* ------------------------------------------------------------------ bounds
MaxOps == 2          \* store operations per behaviour
MaxTime == 2         \* last value of the millisecond clock under concurrent calls and signals
MaxSignals == 3      \* importance signals per behaviour
MaxRestarts == 1     \* scorer objects constructed after the first

\* --------------------------------------------------------------- sequences
RECURSIVE SelectIdx(_, _, _)
\* the subsequence of s at the indices i >= from for which keep[i]
SelectIdx(s, keep, from) ==
  IF from > Len(s) THEN <<>>
  ELSE (IF keep[from] THEN <<s[from]>> ELSE <<>>) \o SelectIdx(s, keep, from + 1)

MapSeq(s, F(_)) == [i \in 1..Len(s) |-> F(s[i])]

Range(s) == {s[i] : i \in 1..Len(s)}

RECURSIVE Flatten(_)
Flatten(ss) == IF ss = <<>> THEN <<>> ELSE Head(ss) \o Flatten(Tail(ss))

\* -------------------------------------------------------------- characters
\* String.prototype.toLowerCase on one character
toLowerCase(c) ==
  CASE c = "A" -> "a"
    [] c = "B" -> "b"
    [] OTHER -> c

\* the characters of the model's alphabet that [a-z0-9-] matches
SlugChars == {"a", "b", "m", "d", "u", "s", "e", "r", "1", "-"}

\* \s
Whitespace == {" "}

\* name.toLowerCase().replace(/[^a-z0-9-]/g, "-").replace(/-+/g, "-").replace(/^-|-$/g, "")
\* (each replace works on the value of the one before: a one-element set names that value)
normalizeEntityName(name) ==
  CHOOSE noTrail \in
    { IF noLead # <<>> /\ noLead[Len(noLead)] = "-"
      THEN SubSeq(noLead, 1, Len(noLead) - 1) ELSE noLead :
        noLead \in
          { IF collapsed # <<>> /\ Head(collapsed) = "-" THEN Tail(collapsed) ELSE collapsed :
              collapsed \in
                { SelectIdx(dashed,
                            [i \in 1..Len(dashed) |->
                               ~(dashed[i] = "-" /\ i > 1 /\ dashed[i - 1] = "-")],
                            1) :
                    dashed \in
                      { [i \in 1..Len(lower) |-> IF lower[i] \in SlugChars THEN lower[i] ELSE "-"] :
                          lower \in {MapSeq(name, toLowerCase)} } } } } : TRUE

\* path.join(entitiesDir, `${sanitized}.md`): a path is <<directory, base name>>
getEntityFilePath(name) == <<"bank/entities", normalizeEntityName(name)>>

\* `bank/entities/${normalizedName}.md`
relPath(normalizedName) == <<"bank/entities", normalizedName>>

RECURSIVE trimEnd(_)
\* what line.trim() leaves of a text that ends the line
trimEnd(s) ==
  IF s = <<>> THEN <<>>
  ELSE IF s[Len(s)] \in Whitespace THEN trimEnd(SubSeq(s, 1, Len(s) - 1)) ELSE s

\* displayName.toLowerCase().replace(/\s+/g, "-")
slugFromDisplayName(displayName) ==
  CHOOSE slug \in
    { SelectIdx([i \in 1..Len(lower) |-> IF lower[i] \in Whitespace THEN "-" ELSE lower[i]],
                [i \in 1..Len(lower) |->
                   ~(lower[i] \in Whitespace /\ i > 1 /\ lower[i - 1] \in Whitespace)],
                1) :
        lower \in {MapSeq(displayName, toLowerCase)} } : TRUE

\* ------------------------------------------------------------------- types
FactTypes == {"world", "experience", "opinion", "summary", "observation"}

\* typeOrder of generateEntityPageMarkdown
typeOrder == <<"world", "experience", "opinion", "observation", "summary">>

RelationTypes == {"works_with", "knows", "related_to", "part_of", "owns",
                  "created", "manages", "prefers", "dislikes", "custom"}

\* type.charAt(0).toUpperCase() + type.slice(1)
capitalize(t) ==
  CASE t = "world" -> "World"
    [] t = "experience" -> "Experience"
    [] t = "opinion" -> "Opinion"
    [] t = "observation" -> "Observation"
    [] t = "summary" -> "Summary"
    [] OTHER -> t

\* trimmed.slice(n).toLowerCase() of a section title
lowerTitle(t) ==
  CASE t = "World" -> "world"
    [] t = "Experience" -> "experience"
    [] t = "Opinion" -> "opinion"
    [] t = "Observation" -> "observation"
    [] t = "Summary" -> "summary"
    [] t = "Relationships" -> "relationships"
    [] t = "Facts" -> "facts"
    [] t = "Evidence" -> "evidence"
    [] OTHER -> t

\* absent optional values
NoConf == -1                 \* confidence undefined
NoPath == <<"", <<>>>>       \* source "" / undefined
NoId == <<"", 0, 0>>         \* id "" / undefined
NoRange == <<0, 0>>          \* dateRange undefined

\* confidence is kept in thousandths; toFixed(2) prints hundredths
toFixed2(c) == (c + 5) \div 10
parseFloat(h) == h * 10

\* tokens of a fact line
TokWord(w) == <<"w", w>>               \* plain text
TokConf(h) == <<"c", h>>               \* " (c=0.70)"
TokSource(p) == <<"s", p>>             \* " [source](path)"
TokDate(r) == <<"d", r>>               \* " (date - date)"

\* ------------------------------------------------------------ record codec
\* `- ${fact.content}${confidence}${dateInfo}${source}`
factLine(f) ==
  <<"fact",
    f.content
      \o (IF f.confidence # NoConf THEN <<TokConf(toFixed2(f.confidence))>> ELSE <<>>)
      \o (IF f.dateRange[1] > 0 THEN <<TokDate(f.dateRange)>> ELSE <<>>)
      \o (IF f.source # NoPath THEN <<TokSource(f.source)>> ELSE <<>>)>>

\* `- **${rel.relation}** [${rel.entity}](./${rel.entity}.md)${relDesc}`:
\* <<"rel", relation, link label, link target after "./", rest of the line>>
relLine(rel) ==
  <<"rel", rel.relation, rel.entity, rel.entity \o <<".", "m", "d">>,
    IF rel.description # <<>> THEN <<"--">> \o rel.description ELSE <<>>>>

\* the "### Type" group of one fact type
factGroup(facts, t) ==
  LET ofType == SelectSeq(facts, LAMBDA f : f.type = t)
  IN IF ofType = <<>> THEN <<>>
     ELSE <<<<"h3", capitalize(t)>>, <<"blank">>>> \o MapSeq(ofType, factLine) \o <<<<"blank">>>>

\* the "## Evidence" entries of one opinion
evidenceLines(f) ==
  (IF f.supportingEvidence # <<>>
   THEN <<<<"bold", "Supporting", f.id>>>>
          \o MapSeq(f.supportingEvidence, LAMBDA e : <<"item", e>>) \o <<<<"blank">>>>
   ELSE <<>>)
  \o
  (IF f.contradictingEvidence # <<>>
   THEN <<<<"bold", "Contradicting", f.id>>>>
          \o MapSeq(f.contradictingEvidence, LAMBDA e : <<"item", e>>) \o <<<<"blank">>>>
   ELSE <<>>)

\* the lines of the Markdown page of an entity (lines.join("\n"))
generateEntityPageMarkdown(entity) ==
  LET header == <<<<"h1", entity.displayName>>, <<"blank">>>>
      typeL == IF entity.type # "" THEN <<<<"type", entity.type>>>> ELSE <<>>
      descL == IF entity.description # <<>>
               THEN <<<<"blank">>, <<"text", entity.description>>>> ELSE <<>>
      updL == <<<<"blank">>, <<"lu", entity.lastUpdated>>, <<"blank">>>>
      relL == IF Len(entity.relationships) > 0
              THEN <<<<"h2", "Relationships">>, <<"blank">>>>
                     \o MapSeq(entity.relationships, relLine) \o <<<<"blank">>>>
              ELSE <<>>
      factL == IF Len(entity.facts) > 0
               THEN <<<<"h2", "Facts">>, <<"blank">>>>
                      \o Flatten([i \in 1..Len(typeOrder) |-> factGroup(entity.facts, typeOrder[i])])
               ELSE <<<<"h2", "Facts">>, <<"blank">>, <<"nofacts">>, <<"blank">>>>
      opinionsWithEvidence ==
        SelectSeq(entity.facts,
                  LAMBDA f : f.type = "opinion"
                             /\ (f.supportingEvidence # <<>> \/ f.contradictingEvidence # <<>>))
      evL == IF Len(opinionsWithEvidence) > 0
             THEN <<<<"h2", "Evidence">>, <<"blank">>>>
                    \o Flatten(MapSeq(opinionsWithEvidence, evidenceLines))
             ELSE <<>>
  IN header \o typeL \o descL \o updL \o relL \o factL \o evL

\* first token of the given kind in a fact line, <<>> when there is none
firstToken(tokens, kind) ==
  LET hits == SelectSeq(tokens, LAMBDA t : t[1] = kind)
  IN IF hits = <<>> THEN <<>> ELSE Head(hits)

\* the fact the parser builds from line i (0-based) of the page
parseFact(tokens, i, subsection, filePath, now) ==
  LET confidenceMatch == firstToken(tokens, "c")
      sourceMatch == firstToken(tokens, "s")
  IN [id |-> <<"fact", now, i>>,
      type |-> IF confidenceMatch # <<>> THEN "opinion"
               ELSE IF subsection # "" THEN subsection
               ELSE "observation",
      content |-> tokens,
      entities |-> <<>>,
      confidence |-> IF confidenceMatch # <<>> THEN parseFloat(confidenceMatch[2]) ELSE NoConf,
      source |-> IF sourceMatch # <<>> THEN sourceMatch[2] ELSE filePath,
      timestamp |-> now,
      dateRange |-> NoRange,
      supportingEvidence |-> <<>>,
      contradictingEvidence |-> <<>>]

\* the relationship the parser builds from a "- **rel** [x](./y)rest" line
parseRelationship(line, now) ==
  [entity |-> line[4],
   relation |-> line[2],
   description |-> line[5],
   establishedAt |-> now,
   sourceFactId |-> NoId]

\* one iteration of the parser's loop over the lines
parseLine(st, line, i, filePath, now) ==
  LET k == line[1] IN
  CASE k = "h1" ->
         LET dn == trimEnd(line[2]) IN
         [st EXCEPT !.displayName = dn,
                    !.name = IF filePath[2] # <<>> THEN filePath[2] ELSE slugFromDisplayName(dn)]
    [] k = "type" -> [st EXCEPT !.type = line[2]]
    [] k = "text" /\ st.section = "" -> [st EXCEPT !.description = st.description \o line[2]]
    [] k = "h2" -> [st EXCEPT !.section = lowerTitle(line[2]), !.subsection = ""]
    [] k = "h3" -> [st EXCEPT !.subsection = lowerTitle(line[2])]
    [] k = "rel" /\ st.section = "relationships" ->
         [st EXCEPT !.relationships = Append(st.relationships, parseRelationship(line, now))]
    [] k = "fact" /\ st.section = "facts" ->
         [st EXCEPT !.facts = Append(st.facts, parseFact(line[2], i, st.subsection, filePath, now))]
    [] OTHER -> st

RECURSIVE parseLines(_, _, _, _, _)
parseLines(lines, i, st, filePath, now) ==
  IF i >= Len(lines) THEN st
  ELSE parseLines(lines, i + 1, parseLine(st, lines[i + 1], i, filePath, now), filePath, now)

\* parseEntityPageMarkdown(content, filePath), read at clock value now;
\* name and displayName are <<>> and type is "" when the page does not set them
parseEntityPageMarkdown(lines, filePath, now) ==
  LET st0 == [displayName |-> <<>>, name |-> <<>>, type |-> "", description |-> <<>>,
              facts |-> <<>>, relationships |-> <<>>, section |-> "", subsection |-> ""]
  IN CHOOSE entity \in
       { [name |-> st.name, displayName |-> st.displayName, type |-> st.type,
          description |-> st.description, facts |-> st.facts,
          relationships |-> st.relationships,
          lastUpdated |-> IF lastUpdatedMatch # <<>> /\ Head(lastUpdatedMatch)[2] # 0
                          THEN Head(lastUpdatedMatch)[2] ELSE now,
          filePath |-> filePath] :
           st \in {parseLines(lines, 0, st0, filePath, now)},
           lastUpdatedMatch \in {SelectSeq(lines, LAMBDA l : l[1] = "lu")} } : TRUE

\* ------------------------------------------------------------------- state
VARIABLES
  files,      \* bank/entities: normalized name -> lines of the page (domain = existing files)
  now,        \* Date.now()
  nextUuid,   \* number of randomUUID() calls so far
  opCount,    \* store operations completed
  last,       \* the last completed store operation: call, arguments, outcome, returned record
  cIn,        \* codec round trip: the record given to generateEntityPageMarkdown
  cText,      \* codec round trip: the generated page
  cOut,       \* codec round trip: the record parseEntityPageMarkdown returns
  cPhase,     \* codec round trip: "input", "encoded" or "decoded"
  rPc,        \* concurrent calls: where each call stands (the await it is suspended at)
  rCall,      \* concurrent calls: the call each caller makes
  rLocal,     \* concurrent calls: the record a call holds in memory (entity / existing)
  rSeen,      \* concurrent calls: the page updateEntity read, <<>> before it has read
  rResult,    \* concurrent calls: how each call ended
  rOrder,     \* concurrent calls: the callers in the order of their updateEntity writes
  sStore,     \* importance scorer: this.store
  sDirty,     \* importance scorer: this.dirty
  sDisk,      \* importance scorer: bank/importance.json, [exists, data]
  sInstance,  \* importance scorer: number of scorer objects constructed after the first
  sSignals,   \* importance scorer: signals recorded so far
  sLast,      \* importance scorer: the last call, its key
  fn,        \* a call of a function on its own: the function
  arg,       \* a call of a function on its own: its arguments
  ret,       \* a call of a function on its own: what it returned, <<>> before it has
  oFile,     \* opinions manager: bank/opinions.md, [exists, lines]
  oLast,     \* opinions manager: the last call, its arguments and what it returned
  scorerCache, \* importance scorers: scorerCache, workspace -> [store, dirty] of its scorer
  ledgerFiles, \* importance scorers: bank/importance.json of each workspace, [exists, data]
  lLast      \* importance scorers: the last call, its arguments and what it returned

storeVars == <<files, now, nextUuid, opCount, last>>
codecVars == <<cIn, cText, cOut, cPhase>>
raceVars == <<rPc, rCall, rLocal, rSeen, rResult, rOrder>>
scorerVars == <<sStore, sDirty, sDisk, sInstance, sSignals, sLast>>
callVars == <<fn, arg, ret>>
opinionVars == <<oFile, oLast>>
ledgerVars == <<scorerCache, ledgerFiles, lLast>>
vars == <<files, now, nextUuid, opCount, last, cIn, cText, cOut, cPhase,
          rPc, rCall, rLocal, rSeen, rResult, rOrder,
          sStore, sDirty, sDisk, sInstance, sSignals, sLast,
          fn, arg, ret,
          oFile, oLast,
          scorerCache, ledgerFiles, lLast>>

\* Fact of entity-types.ts
Fact(id, type, content, entities, confidence, source, timestamp) ==
  [id |-> id, type |-> type, content |-> content, entities |-> entities,
   confidence |-> confidence, source |-> source, timestamp |-> timestamp,
   dateRange |-> NoRange, supportingEvidence |-> <<>>, contradictingEvidence |-> <<>>]

\* EntityRelationship of entity-types.ts
EntityRelationship(entity, relation, description, establishedAt) ==
  [entity |-> entity, relation |-> relation, description |-> description,
   establishedAt |-> establishedAt, sourceFactId |-> NoId]

\* EntityPage of entity-types.ts
EntityPage(name, displayName, type, description, facts, relationships, lastUpdated) ==
  [name |-> name, displayName |-> displayName, type |-> type, description |-> description,
   facts |-> facts, relationships |-> relationships, lastUpdated |-> lastUpdated,
   filePath |-> relPath(name)]

NoEntity == [name |-> <<>>, displayName |-> <<>>, type |-> "", description |-> <<>>,
             facts |-> <<>>, relationships |-> <<>>, lastUpdated |-> 0,
             filePath |-> NoPath]

NoFact == Fact(NoId, "", <<>>, <<>>, NoConf, NoPath, 0)

NoOp == [op |-> "none", name |-> <<>>, other |-> <<>>, relation |-> "", result |-> "ok",
         fact |-> NoFact,
         before |-> NoEntity, returned |-> NoEntity]

\* a workspace nobody has written to yet
StoreInit ==
  /\ files = <<>>
  /\ now = 1
  /\ nextUuid = 0
  /\ opCount = 0
  /\ last = NoOp

CodecIdle ==
  /\ cIn = NoEntity
  /\ cText = <<>>
  /\ cOut = NoEntity
  /\ cPhase = "idle"

Callers == {1, 2}

NoCall == [op |-> "none", name |-> <<>>, options |-> <<>>, fact |-> NoFact, unseen |-> FALSE]

RaceIdle ==
  /\ rPc = [p \in Callers |-> "idle"]
  /\ rCall = [p \in Callers |-> NoCall]
  /\ rLocal = [p \in Callers |-> NoEntity]
  /\ rSeen = [p \in Callers |-> <<>>]
  /\ rResult = [p \in Callers |-> "none"]
  /\ rOrder = <<>>

\* ImportanceRecord of importance-scorer.ts
ImportanceRecord(retrievalCount, citationCount, userCorrectionCount, lastUpdated) ==
  [lastUpdated |-> lastUpdated, retrievalCount |-> retrievalCount,
   citationCount |-> citationCount, userCorrectionCount |-> userCorrectionCount]

\* ImportanceStore `{}`: key -> ImportanceRecord, no key yet
NoRecords == [k \in {} |-> ImportanceRecord(0, 0, 0, 0)]

\* no importance.json
NoLedger == [exists |-> FALSE, data |-> NoRecords]

ScorerIdle ==
  /\ sStore = NoRecords
  /\ sDirty = FALSE
  /\ sDisk = NoLedger
  /\ sInstance = 0
  /\ sSignals = 0
  /\ sLast = [op |-> "none", key |-> ""]

\* a workspace without bank/opinions.md
NoOpinionsFile == [exists |-> FALSE, lines |-> <<>>]
NoOpinionCall ==
  [op |-> "none", factId |-> NoId, fact |-> NoFact, result |-> "none", returned |-> <<>>,
   before |-> NoOpinionsFile, added |-> {}, onlyAdds |-> TRUE, evidence |-> <<>>]
OpinionIdle ==
  /\ oFile = NoOpinionsFile
  /\ oLast = NoOpinionCall

\* the workspaces of the process
Workspaces == {"w1", "w2"}

\* no scorer constructed, no workspace with a bank/importance.json
NoScorers == <<>>
NoLedgerCall ==
  [n |-> 0, op |-> "none", ws |-> "", results |-> <<>>, returned |-> <<>>,
   unsaved |-> {}, signalled |-> {}]
LedgerIdle ==
  /\ scorerCache = NoScorers
  /\ ledgerFiles = [ws \in Workspaces |-> NoLedger]
  /\ lLast = NoLedgerCall

\* no function is being called on its own
CallIdle ==
  /\ fn = "none"
  /\ arg = <<>>
  /\ ret = <<>>

\* ------------------------------------------------------------ entity store
\* an operation's outcome: the files and uuid counter it leaves, how it ended
\* ("ok", "AlreadyExists", "NotFound") and the record it returned
Outcome(fs, u, result, returned) == [files |-> fs, uuid |-> u, result |-> result, returned |-> returned]

\* files without the file of key k (fs.unlink)
unlink(fs, k) == [x \in DOMAIN fs \ {k} |-> fs[x]]

\* first step of fs.writeFile: the file of key k is opened with flag 'w', which
\* creates it or truncates it to nothing
openTruncate(fs, k) == [x \in DOMAIN fs \cup {k} |-> IF x = k THEN <<>> ELSE fs[x]]

\* second step of fs.writeFile: the data goes to the start of the file of key k,
\* over what the file holds; what lies beyond the data stays (the unit here is the
\* line, where the file system's is the byte)
writeData(fs, k, lines) ==
  [fs EXCEPT ![k] = IF Len(fs[k]) > Len(lines)
                    THEN lines \o SubSeq(fs[k], Len(lines) + 1, Len(fs[k]))
                    ELSE lines]

\* an awaited fs.writeFile with no other write to the file in flight: the data is
\* written to the file just emptied, so the file holds the data and nothing else
writeFile(fs, k, lines) == [x \in DOMAIN fs \cup {k} |-> IF x = k THEN lines ELSE fs[x]]

\* EntityManager.getEntity at clock value t; NoEntity stands for null
getEntity(fs, name, t) ==
  CHOOSE entity \in
    { CHOOSE found \in
        { IF filePath[2] \notin DOMAIN fs THEN NoEntity
          ELSE CHOOSE read \in
                 { IF parsed.name = <<>> \/ parsed.displayName = <<>> THEN NoEntity
                   ELSE [parsed EXCEPT !.type = IF parsed.type = "" THEN "unknown" ELSE parsed.type] :
                     parsed \in {parseEntityPageMarkdown(fs[filePath[2]], relPath(normalizedName), t)} } :
                 TRUE :
            filePath \in {getEntityFilePath(normalizedName)} } : TRUE :
        normalizedName \in {normalizeEntityName(name)} } : TRUE

\* options left out by the caller
Undefined == "undefined"
UndefinedText == <<"undefined">>

\* EntityCreateOptions
CreateOptions(displayName, type, description) ==
  [displayName |-> displayName, type |-> type, description |-> description]

\* the record createEntity builds for a new entity
newEntity(name, options, t) ==
  EntityPage(normalizeEntityName(name),
             IF options.displayName \in {UndefinedText, <<>>} THEN name ELSE options.displayName,
             IF options.type \in {Undefined, ""} THEN "unknown" ELSE options.type,
             IF options.description = UndefinedText THEN <<>> ELSE options.description,
             <<>>, <<>>, t)

\* a createEntity that does not look for an existing file and writes in every case
createEntity_overwrite(fs, u, name, options, t) ==
  CHOOSE out \in
    { Outcome(writeFile(fs, filePath[2], generateEntityPageMarkdown(entity)), u, "ok", entity) :
        filePath \in {getEntityFilePath(normalizeEntityName(name))},
        entity \in {newEntity(name, options, t)} } : TRUE

\* EntityManager.createEntity
createEntity(fs, u, name, options, t) ==
  CHOOSE out \in
    { IF filePath[2] \in DOMAIN fs
      THEN Outcome(fs, u, "AlreadyExists", NoEntity)
      ELSE Outcome(writeFile(fs, filePath[2], generateEntityPageMarkdown(entity)), u, "ok", entity) :
        filePath \in {getEntityFilePath(normalizeEntityName(name))},
        entity \in {newEntity(name, options, t)} } : TRUE

\* EntityUpdateOptions
UpdateOptions(displayName, type, description, addFacts, removeFactIds, addRelationships, removeRelationships) ==
  [displayName |-> displayName, type |-> type, description |-> description,
   addFacts |-> addFacts, removeFactIds |-> removeFactIds,
   addRelationships |-> addRelationships, removeRelationships |-> removeRelationships]

NoUpdate == UpdateOptions(UndefinedText, Undefined, UndefinedText, <<>>, {}, <<>>, {})

\* randomUUID(): the k-th identifier drawn
randomUUID(k) == <<"uuid", k, 0>>

RECURSIVE completeFacts(_, _, _)
\* the addFacts loop: a fact without id gets randomUUID(), one without timestamp Date.now()
completeFacts(facts, u, t) ==
  IF facts = <<>> THEN [facts |-> <<>>, uuid |-> u]
  ELSE LET f == Head(facts)
           u1 == IF f.id = NoId THEN u + 1 ELSE u
           g == [f EXCEPT !.id = IF f.id = NoId THEN randomUUID(u1) ELSE f.id,
                          !.timestamp = IF f.timestamp = 0 THEN t ELSE f.timestamp]
           rest == completeFacts(Tail(facts), u1, t)
       IN [facts |-> <<g>> \o rest.facts, uuid |-> rest.uuid]

\* the record updateEntity builds from the record it read
applyUpdate(existing, options, u, t) ==
  LET added == completeFacts(options.addFacts, u, t)
      facts1 == existing.facts \o added.facts
      facts2 == SelectSeq(facts1, LAMBDA f : f.id \notin options.removeFactIds)
      rels1 == existing.relationships
                 \o MapSeq(options.addRelationships, LAMBDA r : [r EXCEPT !.establishedAt = t])
      rels2 == SelectSeq(rels1, LAMBDA r : <<r.entity, r.relation>> \notin options.removeRelationships)
  IN [entity |->
        [existing EXCEPT
           !.displayName = IF options.displayName # UndefinedText THEN options.displayName ELSE @,
           !.type = IF options.type # Undefined THEN options.type ELSE @,
           !.description = IF options.description # UndefinedText THEN options.description ELSE @,
           !.facts = facts2,
           !.relationships = rels2,
           !.lastUpdated = t],
      uuid |-> added.uuid]

\* the "write back" of updateEntity: the page of the record replaces the entity's file
writeBack(fs, name, existing) ==
  writeFile(fs, getEntityFilePath(normalizeEntityName(name))[2], generateEntityPageMarkdown(existing))

\* EntityManager.updateEntity
updateEntity(fs, u, name, options, t) ==
  CHOOSE out \in
    { IF existing = NoEntity
      THEN Outcome(fs, u, "NotFound", NoEntity)
      ELSE CHOOSE written \in
             { Outcome(writeBack(fs, name, upd.entity), upd.uuid, "ok", upd.entity) :
                 upd \in {applyUpdate(existing, options, u, t)} } : TRUE :
        existing \in {getEntity(fs, name, t)} } : TRUE

\* a deleteEntity that empties the file and leaves it in the directory
deleteEntity_keepFile(fs, u, name) ==
  LET filePath == getEntityFilePath(normalizeEntityName(name))
  IN IF filePath[2] \in DOMAIN fs
     THEN Outcome(openTruncate(fs, filePath[2]), u, "ok", NoEntity)
     ELSE Outcome(fs, u, "NotFound", NoEntity)

\* EntityManager.deleteEntity
deleteEntity(fs, u, name) ==
  LET filePath == getEntityFilePath(normalizeEntityName(name))
  IN IF filePath[2] \in DOMAIN fs
     THEN Outcome(unlink(fs, filePath[2]), u, "ok", NoEntity)
     ELSE Outcome(fs, u, "NotFound", NoEntity)

\* reverseRelations of linkEntities
reverseRelations == {"works_with", "knows", "related_to"}

\* a linkEntities that writes the first record before it looks for the second
linkEntities_writeFirst(fs, u, entity1, entity2, relation, description, sourceFactId, t) ==
  CHOOSE out \in
    { IF e1 = NoEntity THEN Outcome(fs, u, "NotFound", NoEntity)
      ELSE CHOOSE linked \in
             { IF e2 = NoEntity THEN Outcome(first.files, first.uuid, "NotFound", NoEntity)
               ELSE IF relation \in reverseRelations
               THEN [updateEntity(first.files, first.uuid, entity2,
                        [NoUpdate EXCEPT !.addRelationships =
                           <<[EntityRelationship(e1.name, relation, description, 0)
                                EXCEPT !.sourceFactId = sourceFactId]>>], t)
                       EXCEPT !.returned = NoEntity]
               ELSE [first EXCEPT !.returned = NoEntity] :
                 first \in
                   {updateEntity(fs, u, entity1,
                      [NoUpdate EXCEPT !.addRelationships =
                         <<[EntityRelationship(normalizeEntityName(entity2), relation, description, 0)
                              EXCEPT !.sourceFactId = sourceFactId]>>], t)} } : TRUE :
        e1 \in {getEntity(fs, entity1, t)},
        e2 \in {getEntity(fs, entity2, t)} } : TRUE

\* EntityManager.linkEntities
linkEntities(fs, u, entity1, entity2, relation, description, sourceFactId, t) ==
  CHOOSE out \in
    { IF e1 = NoEntity \/ e2 = NoEntity THEN Outcome(fs, u, "NotFound", NoEntity)
      ELSE CHOOSE linked \in
             { IF first.result # "ok" THEN first
               ELSE IF relation \in reverseRelations
               THEN [updateEntity(first.files, first.uuid, entity2,
                        [NoUpdate EXCEPT !.addRelationships =
                           <<[EntityRelationship(e1.name, relation, description, 0)
                                EXCEPT !.sourceFactId = sourceFactId]>>], t)
                       EXCEPT !.returned = NoEntity]
               ELSE [first EXCEPT !.returned = NoEntity] :
                 first \in
                   {updateEntity(fs, u, entity1,
                      [NoUpdate EXCEPT !.addRelationships =
                         <<[EntityRelationship(e2.name, relation, description, 0)
                              EXCEPT !.sourceFactId = sourceFactId]>>], t)} } : TRUE :
        e1 \in {getEntity(fs, entity1, t)},
        e2 \in {getEntity(fs, entity2, t)} } : TRUE

\* the fact addFactToEntity hands to updateEntity: id, timestamp and source are set here
fullFact(entityName, fact, u, t) ==
  [fact EXCEPT !.id = randomUUID(u + 1),
               !.timestamp = t,
               !.source = relPath(normalizeEntityName(entityName))]

\* EntityManager.addFactToEntity
addFactToEntity(fs, u, entityName, fact, t) ==
  CHOOSE out \in
    { IF created.result # "ok" THEN created
      ELSE updateEntity(created.files, u + 1, entityName,
                        [NoUpdate EXCEPT !.addFacts = <<fullFact(entityName, fact, u, t)>>], t) :
        created \in
          { IF entity = NoEntity
            THEN createEntity(fs, u, entityName,
                              CreateOptions(UndefinedText, "unknown", UndefinedText), t)
            ELSE Outcome(fs, u, "ok", entity) :
              entity \in {getEntity(fs, entityName, t)} } } : TRUE


\* the comparator of listEntities is negative: a is placed before b
keyFactBefore(a, b) ==
  IF a.type = "opinion" /\ b.type # "opinion" THEN TRUE
  ELSE IF b.type = "opinion" /\ a.type # "opinion" THEN FALSE
  ELSE IF a.type = "opinion" /\ b.type = "opinion"
       THEN (IF b.confidence = NoConf THEN 0 ELSE b.confidence)
              - (IF a.confidence = NoConf THEN 0 ELSE a.confidence) < 0
  ELSE b.timestamp - a.timestamp < 0

RECURSIVE insertKeyFact(_, _)
\* x placed in a sorted list after every element it does not precede
insertKeyFact(sorted, x) ==
  IF sorted = <<>> THEN <<x>>
  ELSE IF keyFactBefore(x, Head(sorted)) THEN <<x>> \o sorted
  ELSE <<Head(sorted)>> \o insertKeyFact(Tail(sorted), x)

RECURSIVE sortKeyFacts(_)
\* entity.facts.sort(comparator): Array.prototype.sort is stable
sortKeyFacts(s) ==
  IF s = <<>> THEN <<>>
  ELSE insertKeyFact(sortKeyFacts(SubSeq(s, 1, Len(s) - 1)), s[Len(s)])

RECURSIVE insertSummary(_, _)
insertSummary(sorted, x) ==
  IF sorted = <<>> THEN <<x>>
  ELSE IF Head(sorted).lastUpdated - x.lastUpdated < 0 THEN <<x>> \o sorted
  ELSE <<Head(sorted)>> \o insertSummary(Tail(sorted), x)

RECURSIVE sortSummaries(_)
\* entities.sort((a, b) => b.lastUpdated - a.lastUpdated)
sortSummaries(s) ==
  IF s = <<>> THEN <<>>
  ELSE insertSummary(sortSummaries(SubSeq(s, 1, Len(s) - 1)), s[Len(s)])

\* EntitySummary of one entity
EntitySummary(entity) ==
  CHOOSE summary \in
    { [name |-> entity.name, displayName |-> entity.displayName, type |-> entity.type,
       summary |-> entity.description,
       keyFacts |-> SubSeq(sorted, 1, IF Len(sorted) < 5 THEN Len(sorted) ELSE 5),
       relationshipCount |-> Len(entity.relationships),
       lastUpdated |-> entity.lastUpdated] :
        sorted \in {sortKeyFacts(entity.facts)} } : TRUE

\* the orders in which fs.readdir may list the files
ReaddirOrders(fs) ==
  {o \in [1..Cardinality(DOMAIN fs) -> DOMAIN fs] : \A i, j \in DOMAIN o : i # j => o[i] # o[j]}

\* EntityManager.listEntities when readdir lists the files in the order dir
listEntities(fs, dir, t) ==
  LET read == MapSeq(dir, LAMBDA file : getEntity(fs, file, t))
      found == SelectSeq(read, LAMBDA e : e # NoEntity)
  IN sortSummaries(MapSeq(found, EntitySummary))


\* ------------------------------------------------- codec round trip (inputs)
memoryLog == <<"memory", <<"1">>>>      \* a source locator outside bank/entities

CodecFacts ==
  << Fact(<<"uuid", 1, 0>>, "world", <<TokWord("w1")>>, <<<<"b">>>>, NoConf, memoryLog, 1),
     Fact(<<"uuid", 2, 0>>, "opinion", <<TokWord("w2")>>, <<<<"a">>, <<"b">>>>, 704, memoryLog, 1),
     Fact(<<"uuid", 3, 0>>, "experience", <<TokWord("w3")>>, <<>>, NoConf, relPath(<<"a">>), 2),
     Fact(<<"uuid", 4, 0>>, "summary", <<TokWord("w4")>>, <<>>, NoConf, relPath(<<"a">>), 2),
     Fact(<<"uuid", 5, 0>>, "observation", <<TokWord("w5")>>, <<>>, NoConf, relPath(<<"a">>), 2),
     Fact(<<"fact", 1, 14>>, "world", <<TokWord("w6")>>, <<>>, NoConf, relPath(<<"a">>), 1) >>

CodecFactLists ==
  { <<>>, CodecFacts, SubSeq(CodecFacts, 1, 5), <<CodecFacts[6]>>, <<CodecFacts[5], CodecFacts[3], CodecFacts[1]>>,
    <<CodecFacts[2]>>, <<CodecFacts[4], CodecFacts[2], CodecFacts[1]>> }

CodecRelationshipLists ==
  { <<>>,
    <<EntityRelationship(<<"b">>, "knows", <<>>, 1)>>,
    <<EntityRelationship(<<"b">>, "works_with", <<"d2">>, 1),
      EntityRelationship(<<"b">>, "owns", <<>>, 1)>> }

CodecInputs ==
  { EntityPage(normalizeEntityName(dn), dn, t, d, fs, rs, lu) :
      dn \in {<<"a">>, <<"A", " ", "b">>},
      t \in {"person", "unknown"},
      d \in {<<>>, <<"d1">>},
      fs \in CodecFactLists,
      rs \in CodecRelationshipLists,
      lu \in 1..MaxTime }

CodecInit ==
  /\ StoreInit
  /\ RaceIdle
  /\ ScorerIdle
  /\ LedgerIdle
  /\ OpinionIdle
  /\ CallIdle
  /\ cIn \in CodecInputs
  /\ cText = <<>>
  /\ cOut = NoEntity
  /\ cPhase = "input"

Encode ==
  /\ cPhase = "input"
  /\ cText' = generateEntityPageMarkdown(cIn)
  /\ cPhase' = "encoded"
  /\ UNCHANGED <<cIn, cOut, storeVars, raceVars, scorerVars, callVars, opinionVars, ledgerVars>>

Decode ==
  /\ cPhase = "encoded"
  /\ cOut' = parseEntityPageMarkdown(cText, cIn.filePath, now)
  /\ cPhase' = "decoded"
  /\ UNCHANGED <<cIn, cText, storeVars, raceVars, scorerVars, callVars, opinionVars, ledgerVars>>

CodecNext == Encode \/ Decode

SpecCodec == CodecInit /\ [][CodecNext]_vars

\* ---------------------------------------------------------------- claim C1
\* the fields of a fact that the round trip is to reproduce
FactFields(f) ==
  [id |-> f.id, type |-> f.type, content |-> f.content, entities |-> f.entities,
   confidence |-> IF f.confidence = NoConf THEN NoConf ELSE toFixed2(f.confidence),
   source |-> f.source]

\* the fields of a relationship that the round trip is to reproduce
RelationshipFields(r) == [entity |-> r.entity, relation |-> r.relation, description |-> r.description]

\* how often each element occurs in a sequence
Occurrences(s) == [x \in Range(s) |-> Cardinality({i \in 1..Len(s) : s[i] = x})]

SameFactsUpToOrder(fs, gs) == Occurrences(MapSeq(fs, FactFields)) = Occurrences(MapSeq(gs, FactFields))

SameHeader(e, g) ==
  /\ g.displayName = e.displayName
  /\ g.type = e.type
  /\ g.description = e.description
  /\ g.lastUpdated = e.lastUpdated

\* C1: parseEntityPageMarkdown(generateEntityPageMarkdown(r)) reproduces displayName, type,
\* description and lastUpdated of r, every fact's id, type, content, entities, confidence
\* (to 2 decimals) and source up to the order of the facts, and every relationship's
\* target name, relation and description.
C1_RoundTripLossless ==
  cPhase = "decoded" =>
    /\ SameHeader(cIn, cOut)
    /\ SameFactsUpToOrder(cIn.facts, cOut.facts)
    /\ MapSeq(cOut.relationships, RelationshipFields) = MapSeq(cIn.relationships, RelationshipFields)

\* ------------------------------------------------------------ capture engine
DefaultConfidence == 700      \* confidence: type === "opinion" ? 0.7 : undefined

\* the loop of captureFromAgentEnd, had the first failing candidate ended it
persistCandidates_stopAtFailure(fs, u, candidates, i, captured, skipped, opts, t) ==
  IF i > Len(candidates) \/ captured >= opts.maxFactsPerRun
  THEN [files |-> fs, uuid |-> u, captured |-> captured, skipped |-> skipped, trace |-> <<>>]
  ELSE CHOOSE run \in
         { [files |-> out.files, uuid |-> out.uuid,
            captured |-> IF out.result = "ok" THEN captured + 1 ELSE captured,
            skipped |-> IF out.result = "ok" THEN skipped ELSE skipped + 1,
            trace |-> <<out.result>>] :
             out \in
               { addFactToEntity(fs, u,
                                 IF c.entities # <<>> THEN c.entities[1] ELSE opts.defaultEntity,
                                 Fact(NoId, c.type, c.content, c.entities,
                                      IF c.type = "opinion" THEN DefaultConfidence ELSE NoConf,
                                      NoPath, 0),
                                 t) : c \in {candidates[i]} } } : TRUE

RECURSIVE persistCandidates(_, _, _, _, _, _, _, _)
\* the loop of captureFromAgentEnd from candidate i (1-based) on; trace lists how the
\* addFactToEntity call of every candidate the loop came to ended
persistCandidates(fs, u, candidates, i, captured, skipped, opts, t) ==
  IF i > Len(candidates) \/ captured >= opts.maxFactsPerRun
  THEN [files |-> fs, uuid |-> u, captured |-> captured, skipped |-> skipped, trace |-> <<>>]
  ELSE CHOOSE run \in
         { CHOOSE traced \in
             { [rest EXCEPT !.trace = <<out.result>> \o @] :
                 rest \in
                   { IF out.result = "ok"
                     THEN persistCandidates(out.files, out.uuid, candidates, i + 1, captured + 1, skipped, opts, t)
                     ELSE persistCandidates(out.files, out.uuid, candidates, i + 1, captured, skipped + 1, opts, t) } } :
             TRUE :
             out \in
               { addFactToEntity(fs, u,
                                 IF c.entities # <<>> THEN c.entities[1] ELSE opts.defaultEntity,
                                 Fact(NoId, c.type, c.content, c.entities,
                                      IF c.type = "opinion" THEN DefaultConfidence ELSE NoConf,
                                      NoPath, 0),
                                 t) : c \in {candidates[i]} } } : TRUE

\* A text is what the patterns of the capture engine find in it:
\*   long      text.length >= 10
\*   mentions  the entity references of the text in its order, each an @name
\*             or a "with Name"
\*   matches   the matches of the patterns, each [kind, pattern, content, fits]:
\*             kind "opinion" for PREFERENCE_PATTERNS[pattern], "experience"
\*             for EXPERIENCE_PATTERNS[pattern], content the trimmed group 1
\*             (shorter than 80 characters), fits when 3 <= content.length <= 500;
\*             the matches of one pattern are in the order of the text
Text(long, mentions, matches) == [long |-> long, mentions |-> mentions, matches |-> matches]
Match(kind, pattern, content, fits) ==
  [kind |-> kind, pattern |-> pattern, content |-> content, fits |-> fits]
EmptyText == Text(FALSE, <<>>, <<>>)

\* a match of /@([A-Za-z0-9_-]+)/g, and one of /\bwith\s+([A-Za-z0-9_-]+)\b/gi
AtMention(name) == [style |-> "at", name |-> name]
WithName(name) == [style |-> "with", name |-> name]

\* names.add for each element of a list: a Set keeps the order of insertion
RECURSIVE addNames(_, _)
addNames(names, more) ==
  IF more = <<>> THEN names
  ELSE addNames(IF \E i \in DOMAIN names : names[i] = Head(more) THEN names
                ELSE Append(names, Head(more)),
                Tail(more))

\* extractEntityMentions, had it kept the references in the order of the text
extractEntityMentions_textOrder(mentions) ==
  addNames(<<>>, [i \in DOMAIN mentions |-> mentions[i].name])

\* extractEntityMentions: the @names first, then the "with" names
extractEntityMentions(mentions) ==
  CHOOSE names \in
    { addNames(addNames(<<>>, [i \in DOMAIN atMentions |-> atMentions[i].name]),
               [i \in DOMAIN withMatch |-> withMatch[i].name]) :
        atMentions \in {SelectSeq(mentions, LAMBDA m : m.style = "at")},
        withMatch \in {SelectSeq(mentions, LAMBDA m : m.style = "with")} } : TRUE

\* message content: a string, an array of parts, or something else
StringContent(text) == [kind |-> "string", text |-> text, parts |-> <<>>]
PartsContent(parts) == [kind |-> "parts", text |-> EmptyText, parts |-> parts]
OtherContent == [kind |-> "other", text |-> EmptyText, parts |-> <<>>]

\* one element of a content array: its type, and its text when that is a string
ContentPart(type, isString, text) == [type |-> type, isString |-> isString, text |-> text]

\* CaptureMessage
CaptureMessage(role, content) == [role |-> role, content |-> content]

extractTextFromContent(content) ==
  IF content.kind = "string" THEN content.text
  ELSE IF content.kind = "parts"
  THEN (IF \E i \in DOMAIN content.parts : content.parts[i].type = "text"
        THEN CHOOSE text \in
               { IF textPart.isString THEN textPart.text ELSE EmptyText :
                   textPart \in
                     { content.parts[CHOOSE i \in DOMAIN content.parts :
                                       /\ content.parts[i].type = "text"
                                       /\ \A j \in 1..(i - 1) : content.parts[j].type # "text"] } } :
               TRUE
        ELSE EmptyText)
  ELSE EmptyText

PREFERENCE_PATTERNS == 4
EXPERIENCE_PATTERNS == 2

\* the while loop of one pattern, had it not looked into the seen set
RECURSIVE extractMatches_unseen(_, _, _)
extractMatches_unseen(acc, ms, entityList) ==
  IF ms = <<>> THEN acc
  ELSE CHOOSE done \in
         { extractMatches_unseen(next, Tail(ms), entityList) :
             next \in
               { IF ~Head(ms).fits THEN acc
                 ELSE [candidates |->
                         Append(acc.candidates,
                                [content |-> Head(ms).content, type |-> Head(ms).kind,
                                 entities |-> entityList]),
                       seen |-> acc.seen \cup {<<Head(ms).kind, Head(ms).content>>}] } } : TRUE

\* the candidates and the seen set after the while loop of one pattern over the matches ms
RECURSIVE extractMatches(_, _, _)
extractMatches(acc, ms, entityList) ==
  IF ms = <<>> THEN acc
  ELSE CHOOSE done \in
         { extractMatches(next, Tail(ms), entityList) :
             next \in
               { IF ~Head(ms).fits \/ <<Head(ms).kind, Head(ms).content>> \in acc.seen THEN acc
                 ELSE [candidates |->
                         Append(acc.candidates,
                                [content |-> Head(ms).content, type |-> Head(ms).kind,
                                 entities |-> entityList]),
                       seen |-> acc.seen \cup {<<Head(ms).kind, Head(ms).content>>}] } } : TRUE

\* the for loop over the patterns of one kind, from pattern k on
RECURSIVE extractPatterns(_, _, _, _, _, _)
extractPatterns(acc, text, kind, k, count, entityList) ==
  IF k > count THEN acc
  ELSE CHOOSE done \in
         { extractPatterns(next, text, kind, k + 1, count, entityList) :
             next \in
               { extractMatches(acc,
                                SelectSeq(text.matches,
                                          LAMBDA m : m.kind = kind /\ m.pattern = k),
                                entityList) } } : TRUE

\* the body of the loop of extractCandidates for one message
extractMessage(acc, msg, defaultEntity) ==
  CHOOSE done \in
    { IF ~text.long THEN acc
      ELSE CHOOSE listed \in
             { CHOOSE experiences \in
                 { extractPatterns(preferences, text, "experience", 1, EXPERIENCE_PATTERNS, entityList) :
                     preferences \in
                       { extractPatterns(acc, text, "opinion", 1, PREFERENCE_PATTERNS, entityList) } } : TRUE :
                 entityList \in
                   { IF Len(entities) > 0 THEN entities ELSE <<defaultEntity>> :
                       entities \in {extractEntityMentions(text.mentions)} } } : TRUE :
        text \in {extractTextFromContent(msg.content)} } : TRUE

RECURSIVE extractMessages(_, _, _)
extractMessages(acc, messages, defaultEntity) ==
  IF messages = <<>> THEN acc
  ELSE CHOOSE done \in
         { extractMessages(next, Tail(messages), defaultEntity) :
             next \in {extractMessage(acc, Head(messages), defaultEntity)} } : TRUE

extractCandidates(messages, defaultEntity) ==
  extractMessages([candidates |-> <<>>, seen |-> {}], messages, defaultEntity).candidates

NoMaxFacts == -1            \* maxFactsPerRun undefined
DefaultMaxFactsPerRun == 5
DefaultEntity == <<"u", "s", "e", "r">>

\* CaptureFromAgentEndOptions
CaptureOptions(messages, defaultEntity, maxFactsPerRun) ==
  [messages |-> messages, defaultEntity |-> defaultEntity, maxFactsPerRun |-> maxFactsPerRun]

\* const { messages, defaultEntity = "user", maxFactsPerRun = 5 } = options
captureDefaults(options) ==
  [options EXCEPT
     !.defaultEntity = IF @ = UndefinedText THEN DefaultEntity ELSE @,
     !.maxFactsPerRun = IF @ = NoMaxFacts THEN DefaultMaxFactsPerRun ELSE @]

\* captureFromAgentEnd, had it not counted the candidates beyond maxFactsPerRun as skipped
captureFromAgentEnd_skipUncounted(fs, u, options, t) ==
  IF Len(options.messages) = 0 THEN [files |-> fs, uuid |-> u, captured |-> 0, skipped |-> 0, trace |-> <<>>]
  ELSE CHOOSE run \in
         { CHOOSE persisted \in
             { persistCandidates(fs, u, candidates, 1, 0, 0, opts, t) :
                 candidates \in {extractCandidates(options.messages, opts.defaultEntity)} } : TRUE :
             opts \in {captureDefaults(options)} } : TRUE

\* captureFromAgentEnd at clock value t: the store afterwards and { captured, skipped }
captureFromAgentEnd(fs, u, options, t) ==
  IF Len(options.messages) = 0 THEN [files |-> fs, uuid |-> u, captured |-> 0, skipped |-> 0, trace |-> <<>>]
  ELSE CHOOSE run \in
         { CHOOSE counted \in
             { CHOOSE r \in
                 { [persisted EXCEPT !.skipped = IF Len(candidates) > opts.maxFactsPerRun
                                                 THEN @ + (Len(candidates) - opts.maxFactsPerRun)
                                                 ELSE @] :
                     persisted \in {persistCandidates(fs, u, candidates, 1, 0, 0, opts, t)} } : TRUE :
                 candidates \in {extractCandidates(options.messages, opts.defaultEntity)} } : TRUE :
             opts \in {captureDefaults(options)} } : TRUE

\* ------------------------------------------------- entity store (behaviours)
\* the names callers use: "A!" normalizes to "a", the name one initial record was created under
NameInputs == {<<"A", "!">>, <<"b">>}

CreateInputs ==
  { CreateOptions(UndefinedText, Undefined, UndefinedText),
    CreateOptions(<<"B", " ", "b">>, "person", <<"d1">>) }

\* facts as callers hand them to addFactToEntity: no id, timestamp or source yet
FactInputs ==
  { Fact(NoId, "opinion", <<TokWord("short")>>, <<<<"a">>>>, 700, NoPath, 0),
    Fact(NoId, "opinion", <<TokWord("terse")>>, <<>>, NoConf, NoPath, 0),
    Fact(NoId, "experience", <<TokWord("fixed"), TokConf(100)>>, <<<<"a">>, <<"b">>>>, NoConf, NoPath, 0) }

\* facts as callers hand them to updateEntity: complete, or without id and timestamp
UpdateFacts ==
  << Fact(<<"id", 1, 0>>, "summary", <<TokWord("w2")>>, <<<<"b">>>>, NoConf, memoryLog, 1),
     Fact(NoId, "world", <<TokWord("w4")>>, <<>>, 500, NoPath, 0) >>

\* the patches tried on an entity whose current record reads as e
UpdateInputs(e) ==
  { [NoUpdate EXCEPT !.addFacts = UpdateFacts],
    [NoUpdate EXCEPT !.description = <<"d2">>, !.type = "project",
                     !.addRelationships = <<EntityRelationship(<<"b">>, "owns", <<"d3">>, 0)>>] }
  \cup { [NoUpdate EXCEPT !.removeFactIds = {e.facts[1].id}] : x \in {1} \cap DOMAIN e.facts }
  \cup { [NoUpdate EXCEPT !.removeRelationships = {<<e.relationships[1].entity, e.relationships[1].relation>>}] :
           x \in {1} \cap DOMAIN e.relationships }

\* the relation kinds linkEntities is called with: one it mirrors, one it does not
RelationInputs == {"works_with", "owns"}

\* "@a I prefer short ..." and "@b with A: I fixed ...": one match each
MessageInputs ==
  << CaptureMessage("user",
       StringContent(Text(TRUE, <<AtMention(<<"a">>)>>,
                          <<Match("opinion", 1, <<TokWord("short")>>, TRUE)>>))),
     CaptureMessage("user",
       StringContent(Text(TRUE, <<AtMention(<<"b">>), WithName(<<"a">>)>>,
                          <<Match("experience", 1, <<TokWord("fixed")>>, TRUE)>>))) >>

MessageLists == { <<MessageInputs[1]>>, MessageInputs }

MaxFactsInputs == {1, 2}

\* an operation ran to its end: the store takes its outcome and `last` records the call
\* (with the record getEntity gave for its first name just before it)
Completed(op, name, other, relation, fact, out) ==
  /\ \E o \in {out} :
       /\ files' = o.files
       /\ nextUuid' = o.uuid
       /\ last' = [op |-> op, name |-> name, other |-> other, relation |-> relation,
                   result |-> o.result, fact |-> fact,
                   before |-> getEntity(files, name, now), returned |-> o.returned]
  /\ opCount' = opCount + 1
  /\ UNCHANGED <<now, codecVars, raceVars, scorerVars, callVars, opinionVars, ledgerVars>>

CreateEntity ==
  \E name \in NameInputs, options \in CreateInputs :
    /\ opCount < MaxOps
    /\ Completed("createEntity", name, <<>>, "", NoFact,
                 createEntity(files, nextUuid, name, options, now))

GetEntity ==
  \E name \in NameInputs :
    /\ opCount < MaxOps
    /\ Completed("getEntity", name, <<>>, "", NoFact,
                 Outcome(files, nextUuid, "ok", getEntity(files, name, now)))

UpdateEntity ==
  \E name \in NameInputs :
    \E e \in {getEntity(files, name, now)} :
    \E options \in UpdateInputs(e) :
      /\ opCount < MaxOps
      /\ Completed("updateEntity", name, <<>>, "",
                   IF options.addFacts # <<>> THEN options.addFacts[1] ELSE NoFact,
                   updateEntity(files, nextUuid, name, options, now))

DeleteEntity ==
  \E name \in NameInputs :
    /\ opCount < MaxOps
    /\ Completed("deleteEntity", name, <<>>, "", NoFact, deleteEntity(files, nextUuid, name))

LinkEntities ==
  \E entity1 \in NameInputs, entity2 \in NameInputs, relation \in RelationInputs,
     description \in {<<"d4">>}, sourceFactId \in {NoId} :
    /\ opCount < MaxOps
    /\ Completed("linkEntities", entity1, entity2, relation, NoFact,
                 linkEntities(files, nextUuid, entity1, entity2, relation, description,
                              sourceFactId, now))

AddFactToEntity ==
  \E entityName \in NameInputs, fact \in FactInputs :
    /\ opCount < MaxOps
    /\ Completed("addFactToEntity", entityName, <<>>, "",
                 fullFact(entityName, fact, nextUuid, now),
                 addFactToEntity(files, nextUuid, entityName, fact, now))

CaptureFromAgentEnd ==
  \E messages \in MessageLists, maxFactsPerRun \in MaxFactsInputs :
    LET run == captureFromAgentEnd(files, nextUuid,
                                   CaptureOptions(messages, <<"u">>, maxFactsPerRun), now)
    IN /\ opCount < MaxOps
       /\ Completed("captureFromAgentEnd", <<>>, <<>>, "", NoFact,
                    Outcome(run.files, run.uuid, "ok", NoEntity))

\* Date.now() moves on between two operations: the next one runs in the same
\* millisecond as the one before or in a later one
Tick ==
  /\ now <= opCount
  /\ opCount < MaxOps
  /\ now' = now + 1
  /\ UNCHANGED <<files, nextUuid, opCount, last, codecVars, raceVars, scorerVars, callVars, opinionVars, ledgerVars>>

\* the workspaces a behaviour starts from: the empty one, and ones that earlier
\* calls of the store's own operations (at clock value 1) have left behind
EmptyStore == Outcome(<<>>, 0, "ok", NoEntity)

StoreAB ==
  CHOOSE s2 \in
    { createEntity(s1.files, s1.uuid, <<"b">>, CreateOptions(<<"B", " ", "b">>, "person", <<"d1">>), 1) :
        s1 \in {createEntity(<<>>, 0, <<"a">>, CreateOptions(UndefinedText, Undefined, UndefinedText), 1)} } :
    TRUE

StoreFacts ==
  CHOOSE s5 \in
    { linkEntities(s4.files, s4.uuid, <<"a">>, <<"b">>, "knows", <<>>, NoId, 1) :
        s4 \in
          { addFactToEntity(s3.files, s3.uuid, <<"a">>,
                            Fact(NoId, "world", <<TokWord("w1")>>, <<>>, NoConf, NoPath, 0), 1) :
              s3 \in
                { addFactToEntity(s2.files, s2.uuid, <<"a">>,
                    Fact(NoId, "opinion", <<TokWord("short")>>, <<<<"a">>>>, 700, NoPath, 0), 1) :
                    s2 \in {StoreAB} } } } : TRUE

InitialStores == {EmptyStore, StoreFacts}

Init ==
  /\ \E store \in InitialStores :
       /\ files = store.files
       /\ nextUuid = store.uuid
  /\ now = 1
  /\ opCount = 0
  /\ last = NoOp
  /\ CodecIdle
  /\ RaceIdle
  /\ ScorerIdle
  /\ LedgerIdle
  /\ OpinionIdle
  /\ CallIdle

Next ==
  \/ CreateEntity
  \/ GetEntity
  \/ UpdateEntity
  \/ DeleteEntity
  \/ LinkEntities
  \/ AddFactToEntity
  \/ CaptureFromAgentEnd
  \/ Tick

Spec == Init /\ [][Next]_vars

\* ------------------------------------------------------- claims C2 and C4-C10
\* the step just taken completed the store operation op
Did(op) == opCount' = opCount + 1 /\ last'.op = op

\* every fact the store holds, as getEntity returns it now
StoredFacts == UNION {Range(getEntity(files, k, now).facts) : k \in DOMAIN files}

\* C2: the id a fact got when addFactToEntity added it is the id later reads of the
\* entity report for it, and no two facts of the workspace share an id.
C2_FactIdAssignedOnce ==
  /\ (last.op = "addFactToEntity" /\ last.result = "ok") =>
       \E f \in Range(getEntity(files, last.name, now).facts) : f.id = last.fact.id
  /\ \A k1, k2 \in DOMAIN files :
       LET e1 == getEntity(files, k1, now)
           e2 == getEntity(files, k2, now)
       IN \A i \in DOMAIN e1.facts, j \in DOMAIN e2.facts :
            e1.facts[i].id = e2.facts[j].id => (k1 = k2 /\ i = j)

\* C4: createEntity for a name whose normalized form already has a record fails with
\* AlreadyExists and leaves every file as it was.
C4_CreateExistingFails ==
  [][(Did("createEntity") /\ normalizeEntityName(last'.name) \in DOMAIN files)
       => (last'.result = "AlreadyExists" /\ files' = files)]_vars

\* a createEntity under a name written differently from the one the record was created
\* under has been refused
C4_Witness ==
  /\ last.op = "createEntity"
  /\ last.result = "AlreadyExists"
  /\ last.before # NoEntity
  /\ last.before.displayName # last.name
  /\ last.before.name = normalizeEntityName(last.name)

\* the last relationship of a record is (target, relation)
LastRelationshipIs(e, target, relation) ==
  /\ e.relationships # <<>>
  /\ e.relationships[Len(e.relationships)].entity = target
  /\ e.relationships[Len(e.relationships)].relation = relation

\* C5: after a successful linkEntities(a, b, r) on two distinct entities, a has one more
\* relationship (target b's normalized name, relation r); b has one more (target a,
\* relation r) iff r is works_with, knows or related_to, and is unchanged otherwise.
C5_LinkWritesRelationship ==
  [][(Did("linkEntities") /\ last'.result = "ok"
        /\ normalizeEntityName(last'.name) # normalizeEntityName(last'.other))
       => LET a0 == getEntity(files, last'.name, now)
              a1 == getEntity(files', last'.name, now')
              b0 == getEntity(files, last'.other, now)
              b1 == getEntity(files', last'.other, now')
          IN /\ Len(a1.relationships) = Len(a0.relationships) + 1
             /\ LastRelationshipIs(a1, normalizeEntityName(last'.other), last'.relation)
             /\ IF last'.relation \in {"works_with", "knows", "related_to"}
                THEN /\ Len(b1.relationships) = Len(b0.relationships) + 1
                     /\ LastRelationshipIs(b1, normalizeEntityName(last'.name), last'.relation)
                ELSE b1 = b0]_vars

\* C6: linkEntities fails with NotFound when either entity has no record, and then
\* writes nothing.
C6_LinkMissingWritesNothing ==
  [][(Did("linkEntities")
        /\ (getEntity(files, last'.name, now) = NoEntity
              \/ getEntity(files, last'.other, now) = NoEntity))
       => (last'.result = "NotFound" /\ files' = files)]_vars

\* a linkEntities whose first entity exists and whose second does not has failed
C6_Witness ==
  /\ last.op = "linkEntities"
  /\ last.result = "NotFound"
  /\ last.before # NoEntity
  /\ getEntity(files, last.other, now) = NoEntity

\* the fact types of a record, with multiplicity
TypeCounts(e) == Occurrences(MapSeq(e.facts, LAMBDA f : f.type))

\* counts with one more occurrence of x
OneMore(counts, x) ==
  [y \in DOMAIN counts \cup {x} |->
     (IF y \in DOMAIN counts THEN counts[y] ELSE 0) + (IF y = x THEN 1 ELSE 0)]

\* C7: addFactToEntity creates a missing record with type unknown, and in every case the
\* entity afterwards reads with exactly one more fact, of the type that was given.
C7_AddFactAddsOneOfGivenType ==
  [][Did("addFactToEntity")
       => LET e0 == getEntity(files, last'.name, now)
              e1 == getEntity(files', last'.name, now')
          IN /\ last'.result = "ok"
             /\ e1 # NoEntity
             /\ e0 = NoEntity => e1.type = "unknown"
             /\ TypeCounts(e1) = OneMore(TypeCounts(e0), last'.fact.type)]_vars

\* C8: after a successful deleteEntity(name), getEntity(name) is null, listEntities omits
\* the entity, another deleteEntity(name) fails with NotFound, and createEntity(name)
\* succeeds with a record that has no facts and no relationships.
C8_DeleteRemovesEverything ==
  [][(Did("deleteEntity") /\ last'.result = "ok")
       => /\ getEntity(files', last'.name, now') = NoEntity
          /\ \A dir \in ReaddirOrders(files') :
               \A i \in DOMAIN listEntities(files', dir, now') :
                 listEntities(files', dir, now')[i].name # last'.before.name
          /\ deleteEntity(files', nextUuid', last'.name).result = "NotFound"
          /\ \A options \in CreateInputs :
               LET again == createEntity(files', nextUuid', last'.name, options, now')
                   read == getEntity(again.files, last'.name, now')
               IN /\ again.result = "ok"
                  /\ again.returned.facts = <<>> /\ again.returned.relationships = <<>>
                  /\ read # NoEntity
                  /\ read.facts = <<>> /\ read.relationships = <<>>]_vars

\* an entity that had facts and relationships has been deleted
C8_Witness ==
  /\ last.op = "deleteEntity"
  /\ last.result = "ok"
  /\ last.before.facts # <<>>
  /\ last.before.relationships # <<>>

\* C10: every fact the store holds, as getEntity returns it, has a confidence value if
\* and only if its type is opinion.
C10_ConfidenceIffOpinion ==
  \A f \in StoredFacts : (f.confidence # NoConf) <=> (f.type = "opinion")

\* ---------------------------------------------- entity store, concurrent calls
\* Two calls run in one process; each await on the file system is a point where
\* the other call may take its next step.
RaceMark(p) == IF p = 1 THEN "p1" ELSE "p2"

\* the calls caller p may make; each carries the caller's own word
RaceCallInputs(p) ==
  { [op |-> "addFactToEntity", name |-> n, options |-> NoUpdate,
     fact |-> Fact(NoId, "opinion", <<TokWord(RaceMark(p))>>, <<>>, 700, NoPath, 0)] :
      n \in NameInputs }
  \cup
  { [op |-> "updateEntity", name |-> n, fact |-> NoFact,
     options |-> [NoUpdate EXCEPT !.addFacts =
                    <<Fact(NoId, "world", <<TokWord(RaceMark(p))>>, <<>>, NoConf, memoryLog, 0)>>]] :
      n \in NameInputs }
  \cup
  { [op |-> "updateEntity", name |-> n, fact |-> NoFact,
     options |-> [NoUpdate EXCEPT !.description = <<RaceMark(p)>>]] :
      n \in NameInputs }

RaceKey(p) == getEntityFilePath(normalizeEntityName(rCall[p].name))[2]

\* a caller enters addFactToEntity or updateEntity; unseen notes that the store had
\* no file for the name at that moment
RaceCall(p) ==
  /\ rPc[p] = "idle"
  /\ \E call \in RaceCallInputs(p) :
       /\ rCall' = [rCall EXCEPT ![p] =
                      [op |-> call.op, name |-> call.name, options |-> call.options,
                       fact |-> call.fact,
                       unseen |-> getEntityFilePath(normalizeEntityName(call.name))[2]
                                    \notin DOMAIN files]]
       /\ rPc' = [rPc EXCEPT ![p] = IF call.op = "addFactToEntity" THEN "getEntity" ELSE "readFile"]
  /\ UNCHANGED <<files, now, nextUuid, opCount, last, rLocal, rSeen, rResult, rOrder,
                 codecVars, scorerVars, callVars, opinionVars, ledgerVars>>

\* the options addFactToEntity passes to updateEntity, with the full fact built now
WithFullFact(p) ==
  [rCall EXCEPT ![p].options =
     [NoUpdate EXCEPT !.addFacts = <<fullFact(rCall[p].name, rCall[p].fact, nextUuid, now)>>]]

\* addFactToEntity: `await this.getEntity(entityName)` returns
RaceAddFactGetEntity(p) ==
  /\ rPc[p] = "getEntity"
  /\ IF getEntity(files, rCall[p].name, now) = NoEntity
     THEN /\ rPc' = [rPc EXCEPT ![p] = "access"]
          /\ UNCHANGED <<rCall, nextUuid, callVars, opinionVars, ledgerVars>>
     ELSE /\ rPc' = [rPc EXCEPT ![p] = "readFile"]
          /\ rCall' = WithFullFact(p)
          /\ nextUuid' = nextUuid + 1
  /\ UNCHANGED <<files, now, opCount, last, rLocal, rSeen, rResult, rOrder, codecVars, scorerVars, callVars, opinionVars, ledgerVars>>

\* createEntity: `await fs.access(filePath)` returns or throws
RaceCreateAccess(p) ==
  /\ rPc[p] = "access"
  /\ IF RaceKey(p) \in DOMAIN files
     THEN /\ rPc' = [rPc EXCEPT ![p] = "done"]
          /\ rResult' = [rResult EXCEPT ![p] = "AlreadyExists"]
          /\ UNCHANGED rLocal
     ELSE /\ rPc' = [rPc EXCEPT ![p] = "createOpen"]
          /\ rLocal' = [rLocal EXCEPT ![p] =
                          newEntity(rCall[p].name,
                                    CreateOptions(UndefinedText, "unknown", UndefinedText), now)]
          /\ UNCHANGED rResult
  /\ UNCHANGED <<files, now, nextUuid, opCount, last, rCall, rSeen, rOrder, codecVars, scorerVars, callVars, opinionVars, ledgerVars>>

\* createEntity: fs.writeFile has opened the file
RaceCreateOpen(p) ==
  /\ rPc[p] = "createOpen"
  /\ files' = openTruncate(files, RaceKey(p))
  /\ rPc' = [rPc EXCEPT ![p] = "createWrite"]
  /\ UNCHANGED <<now, nextUuid, opCount, last, rCall, rLocal, rSeen, rResult, rOrder,
                 codecVars, scorerVars, callVars, opinionVars, ledgerVars>>

\* createEntity: `await fs.writeFile(filePath, content)` returns, addFactToEntity goes on
RaceCreateWrite(p) ==
  /\ rPc[p] = "createWrite"
  /\ files' = writeData(files, RaceKey(p), generateEntityPageMarkdown(rLocal[p]))
  /\ rPc' = [rPc EXCEPT ![p] = "readFile"]
  /\ rCall' = WithFullFact(p)
  /\ nextUuid' = nextUuid + 1
  /\ UNCHANGED <<now, opCount, last, rLocal, rSeen, rResult, rOrder, codecVars, scorerVars, callVars, opinionVars, ledgerVars>>

\* updateEntity: `await this.getEntity(name)` returns and the patch is applied in memory
RaceUpdateRead(p) ==
  /\ rPc[p] = "readFile"
  /\ \E existing \in {getEntity(files, rCall[p].name, now)} :
     \E upd \in {IF existing = NoEntity THEN [entity |-> NoEntity, uuid |-> nextUuid]
                  ELSE applyUpdate(existing, rCall[p].options, nextUuid, now)} :
        IF existing = NoEntity
        THEN /\ rPc' = [rPc EXCEPT ![p] = "done"]
             /\ rResult' = [rResult EXCEPT ![p] = "NotFound"]
             /\ UNCHANGED <<rLocal, rSeen, nextUuid, callVars, opinionVars, ledgerVars>>
        ELSE /\ rPc' = [rPc EXCEPT ![p] = "open"]
             /\ rLocal' = [rLocal EXCEPT ![p] = upd.entity]
             /\ rSeen' = [rSeen EXCEPT ![p] = files[RaceKey(p)]]
             /\ nextUuid' = upd.uuid
             /\ UNCHANGED rResult
  /\ UNCHANGED <<files, now, opCount, last, rCall, rOrder, codecVars, scorerVars, callVars, opinionVars, ledgerVars>>

\* updateEntity: fs.writeFile has opened the file
RaceUpdateOpen(p) ==
  /\ rPc[p] = "open"
  /\ files' = openTruncate(files, RaceKey(p))
  /\ rPc' = [rPc EXCEPT ![p] = "writeFile"]
  /\ UNCHANGED <<now, nextUuid, opCount, last, rCall, rLocal, rSeen, rResult, rOrder,
                 codecVars, scorerVars, callVars, opinionVars, ledgerVars>>

\* updateEntity: `await fs.writeFile(filePath, content)` returns
RaceUpdateWrite(p) ==
  /\ rPc[p] = "writeFile"
  /\ files' = writeData(files, RaceKey(p), generateEntityPageMarkdown(rLocal[p]))
  /\ rPc' = [rPc EXCEPT ![p] = "done"]
  /\ rResult' = [rResult EXCEPT ![p] = "ok"]
  /\ rOrder' = Append(rOrder, p)
  /\ UNCHANGED <<now, nextUuid, opCount, last, rCall, rLocal, rSeen, codecVars, scorerVars, callVars, opinionVars, ledgerVars>>

RaceTick ==
  /\ now < MaxTime
  /\ \E p \in Callers : rPc[p] # "done"
  /\ now' = now + 1
  /\ UNCHANGED <<files, nextUuid, opCount, last, codecVars, raceVars, scorerVars, callVars, opinionVars, ledgerVars>>

RaceInit ==
  /\ \E store \in InitialStores :
       /\ files = store.files
       /\ nextUuid = store.uuid
  /\ now = 1
  /\ opCount = 0
  /\ last = NoOp
  /\ CodecIdle
  /\ RaceIdle
  /\ ScorerIdle
  /\ LedgerIdle
  /\ OpinionIdle
  /\ CallIdle

RaceNext ==
  \/ \E p \in Callers : RaceCall(p)
  \/ \E p \in Callers : RaceAddFactGetEntity(p)
  \/ \E p \in Callers : RaceCreateAccess(p)
  \/ \E p \in Callers : RaceCreateOpen(p)
  \/ \E p \in Callers : RaceCreateWrite(p)
  \/ \E p \in Callers : RaceUpdateRead(p)
  \/ \E p \in Callers : RaceUpdateOpen(p)
  \/ \E p \in Callers : RaceUpdateWrite(p)
  \/ RaceTick

SpecRace == RaceInit /\ [][RaceNext]_vars

\* ---------------------------------------------------------------- claim C9
\* the word w occurs in the page: in a fact's content or in the description
PageHasWord(lines, w) ==
  \E i \in DOMAIN lines :
    \/ lines[i][1] = "fact" /\ TokWord(w) \in Range(lines[i][2])
    \/ lines[i][1] = "text" /\ w \in Range(lines[i][2])

\* both calls have written the same entity and both had read the same old page
BothReadBeforeEitherWrote ==
  /\ Len(rOrder) = 2
  /\ RaceKey(1) = RaceKey(2)
  /\ rSeen[1] = rSeen[2]

\* C9: when two updateEntity/addFactToEntity calls on one entity both read the old record
\* before either writes, the stored page is exactly the page of the later writer's
\* record: it has the later writer's change and not the earlier writer's.
C9_LastWriterWins ==
  BothReadBeforeEitherWrote =>
    /\ files[RaceKey(1)] = generateEntityPageMarkdown(rLocal[rOrder[2]])
    /\ PageHasWord(files[RaceKey(1)], RaceMark(rOrder[2]))
    /\ ~PageHasWord(files[RaceKey(1)], RaceMark(rOrder[1]))

\* -------------------------------------------------------- importance scorer
\* importance.json holds JSON.stringify(store): string keys and integer fields,
\* which JSON.parse gives back as they were; the ledger on disk is modelled as the store.
KeyInputs == {"k1", "k2"}

\* ImportanceScorer.load: the parsed file replaces the store; without a file the store stays
load(store, disk) == IF disk.exists THEN disk.data ELSE store

\* ImportanceScorer.getOrCreateRecord
getOrCreateRecord(store, key, t) ==
  IF key \in DOMAIN store THEN store
  ELSE [k \in DOMAIN store \cup {key} |->
          IF k = key THEN ImportanceRecord(0, 0, 0, t) ELSE store[k]]

\* the body shared by the three record* methods: one count goes up by one
recordSignal(store, key, field, t) ==
  LET created == getOrCreateRecord(store, key, t)
  IN [created EXCEPT ![key] = [created[key] EXCEPT ![field] = @ + 1, !.lastUpdated = t]]

Signal(op, field) ==
  /\ sSignals < MaxSignals
  /\ \E key \in KeyInputs :
       /\ sStore' = recordSignal(sStore, key, field, now)
       /\ sLast' = [op |-> op, key |-> key]
  /\ sDirty' = TRUE
  /\ sSignals' = sSignals + 1
  /\ UNCHANGED <<sDisk, sInstance, storeVars, codecVars, raceVars, callVars, opinionVars, ledgerVars>>

RecordRetrieval == Signal("recordRetrieval", "retrievalCount")

RecordCitation == Signal("recordCitation", "citationCount")

RecordUserCorrection == Signal("recordUserCorrection", "userCorrectionCount")

Loading(op, keys) ==
  /\ sStore' = load(sStore, sDisk)
  /\ \E key \in keys : sLast' = [op |-> op, key |-> key]
  /\ UNCHANGED <<sDirty, sDisk, sInstance, sSignals, storeVars, codecVars, raceVars, callVars, opinionVars, ledgerVars>>

Load == Loading("load", {""})

\* ImportanceScorer.getImportance: its effect on the ledger is that of load
GetImportance == Loading("getImportance", KeyInputs)

\* ImportanceScorer.getTopKeys: its effect on the ledger is that of load
GetTopKeys == Loading("getTopKeys", {""})

\* ImportanceScorer.save
Save ==
  /\ sDisk' = IF sDirty THEN [exists |-> TRUE, data |-> sStore] ELSE sDisk
  /\ sDirty' = FALSE
  /\ sLast' = [op |-> "save", key |-> ""]
  /\ UNCHANGED <<sStore, sInstance, sSignals, storeVars, codecVars, raceVars, callVars, opinionVars, ledgerVars>>

\* the process restarts: getImportanceScorer finds its cache empty and constructs a scorer
Restart ==
  /\ sInstance < MaxRestarts
  /\ sInstance' = sInstance + 1
  /\ sStore' = NoRecords
  /\ sDirty' = FALSE
  /\ sLast' = [op |-> "new", key |-> ""]
  /\ UNCHANGED <<sDisk, sSignals, storeVars, codecVars, raceVars, callVars, opinionVars, ledgerVars>>

ScorerTick ==
  /\ now < MaxTime
  /\ now' = now + 1
  /\ UNCHANGED <<files, nextUuid, opCount, last, codecVars, raceVars, scorerVars, callVars, opinionVars, ledgerVars>>

\* ledgers an earlier run of the scorer may have left
InitialLedgers ==
  { NoLedger,
    [exists |-> TRUE, data |-> recordSignal(recordSignal(NoRecords, "k1", "retrievalCount", 1),
                                            "k1", "citationCount", 1)] }

ScorerInit ==
  /\ files = EmptyStore.files
  /\ nextUuid = 0
  /\ now = 1
  /\ opCount = 0
  /\ last = NoOp
  /\ CodecIdle
  /\ RaceIdle
  /\ OpinionIdle
  /\ LedgerIdle
  /\ CallIdle
  /\ sStore = NoRecords
  /\ sDirty = FALSE
  /\ sDisk \in InitialLedgers
  /\ sInstance = 0
  /\ sSignals = 0
  /\ sLast = [op |-> "new", key |-> ""]

ScorerNext ==
  \/ RecordRetrieval
  \/ RecordCitation
  \/ RecordUserCorrection
  \/ Load
  \/ GetImportance
  \/ GetTopKeys
  \/ Save
  \/ Restart
  \/ ScorerTick

SpecScorer == ScorerInit /\ [][ScorerNext]_vars

\* ---------------------------------------------------------------- claim C3
\* every key of ledger a has a record in ledger b with counts at least as large
LedgerGrows(a, b) ==
  \A k \in DOMAIN a :
    /\ k \in DOMAIN b
    /\ b[k].retrievalCount >= a[k].retrievalCount
    /\ b[k].citationCount >= a[k].citationCount
    /\ b[k].userCorrectionCount >= a[k].userCorrectionCount

\* C3: over any step of the scorer no count decreases and no record is lost, in the
\* in-memory ledger of a scorer object and in the persisted ledger (also over a restart).
C3_CountsNeverDecrease ==
  [][/\ (sInstance' = sInstance => LedgerGrows(sStore, sStore'))
     /\ LedgerGrows(sDisk.data, sDisk'.data)]_vars

\* ------------------------------------------------------------ queryEntities
MaxQueryTime == 4     \* the clock of the query behaviours stops here

NoDate == -1         \* since / until undefined
NoLimit == 0         \* limit undefined (or 0, which the loop treats alike)

\* EntityQueryOptions
QueryOptions(factType, since, until, relationType, limit) ==
  [factType |-> factType, since |-> since, until |-> until,
   relationType |-> relationType, limit |-> limit]

\* f.dateRange?.start || f.timestamp
factTime(f) == IF f.dateRange[1] # 0 THEN f.dateRange[1] ELSE f.timestamp

\* the filters of the loop of queryEntities: TRUE when the record is pushed
queryKeeps(entity, options, t) ==
  /\ options.factType # Undefined =>
       \E i \in DOMAIN entity.facts : entity.facts[i].type = options.factType
  /\ (options.since # NoDate \/ options.until # NoDate) =>
       \E sinceTs \in {IF options.since = NoDate THEN 0 ELSE options.since} :
         \E untilTs \in {IF options.until = NoDate \/ options.until = 0 THEN t
                         ELSE options.until} :
           \E hasFactsInRange \in
                {\E i \in DOMAIN entity.facts :
                    /\ factTime(entity.facts[i]) >= sinceTs
                    /\ factTime(entity.facts[i]) <= untilTs} :
             ~(~hasFactsInRange /\ entity.lastUpdated < sinceTs)
  /\ options.relationType # Undefined =>
       \E i \in DOMAIN entity.relationships :
         entity.relationships[i].relation = options.relationType

\* EntityManager.queryEntities when readdir lists the files in the order dir
queryEntities(fs, dir, options, t) ==
  CHOOSE results \in
    { CHOOSE limited \in
        { IF options.limit # NoLimit /\ Len(kept) > options.limit
          THEN SubSeq(kept, 1, options.limit) ELSE kept :
            kept \in
              { SelectSeq(MapSeq(allEntities, LAMBDA summary : getEntity(fs, summary.name, t)),
                          LAMBDA entity : entity # NoEntity /\ queryKeeps(entity, options, t)) } } :
        TRUE :
        allEntities \in {listEntities(fs, dir, t)} } : TRUE

\* a store with a record without facts written at time t
StoreQuery(t) ==
  CHOOSE s \in
    { createEntity(s0.files, s0.uuid, <<"d">>,
                   CreateOptions(UndefinedText, Undefined, UndefinedText), t) :
        s0 \in {StoreFacts} } : TRUE

QueryStores == {StoreQuery(t) : t \in 1..3}

SinceInputs == {NoDate, 2}
UntilInputs == {NoDate, 1, 2}
QueryInputs ==
  {QueryOptions(Undefined, since, until, relationType, limit) :
     since \in SinceInputs, until \in UntilInputs,
     relationType \in {Undefined, "knows"}, limit \in {NoLimit}}
  \cup {QueryOptions(factType, NoDate, 2, Undefined, 1) : factType \in {Undefined, "world"}}

QueryEntities ==
  \E options \in QueryInputs, dir \in ReaddirOrders(files) :
    /\ fn' = "queryEntities"
    /\ arg' = [options |-> options, dir |-> dir, t |-> now]
    /\ ret' = queryEntities(files, dir, options, now)
    /\ UNCHANGED <<storeVars, codecVars, raceVars, scorerVars, opinionVars, ledgerVars>>

QueryTick ==
  /\ now < MaxQueryTime
  /\ now' = now + 1
  /\ UNCHANGED <<files, nextUuid, opCount, last, codecVars, raceVars, scorerVars, callVars, opinionVars, ledgerVars>>

QueryInit ==
  /\ \E store \in QueryStores :
       /\ files = store.files
       /\ nextUuid = store.uuid
  /\ now = 3
  /\ opCount = 0
  /\ last = NoOp
  /\ CodecIdle
  /\ RaceIdle
  /\ ScorerIdle
  /\ LedgerIdle
  /\ OpinionIdle
  /\ CallIdle

QueryNext ==
  \/ QueryEntities
  \/ QueryTick

SpecQuery == QueryInit /\ [][QueryNext]_vars

\* t lies within the bounds that were given
Within(t, since, until) ==
  /\ since # NoDate => t >= since
  /\ until # NoDate => t <= until

\* the record passes the time window as it is specified
InTimeWindow(entity, options) ==
  \/ \E i \in DOMAIN entity.facts :
       Within(factTime(entity.facts[i]), options.since, options.until)
  \/ /\ \A i \in DOMAIN entity.facts :
          ~Within(factTime(entity.facts[i]), options.since, options.until)
     /\ Within(entity.lastUpdated, options.since, options.until)

\* the records of the store as queryEntities read them
QueriedRecords ==
  {getEntity(files, name, arg.t) : name \in DOMAIN files} \ {NoEntity}

\* C11: queryEntities({since, until}) returns a record exactly when one of its
\* facts has its time (dateRange.start, else timestamp) within [since, until],
\* or none has and the record's lastUpdated lies within [since, until]; with
\* relationType only records with a relationship of that kind are returned;
\* with limit at most limit records are returned.
C11_QueryTimeWindow ==
  fn = "queryEntities" =>
    /\ \A i \in DOMAIN ret :
         /\ InTimeWindow(ret[i], arg.options)
         /\ arg.options.relationType # Undefined =>
              \E r \in DOMAIN ret[i].relationships :
                ret[i].relationships[r].relation = arg.options.relationType
    /\ arg.options.limit # NoLimit => Len(ret) <= arg.options.limit
    /\ (arg.options.limit = NoLimit /\ arg.options.factType = Undefined) =>
         \A entity \in QueriedRecords :
           (/\ InTimeWindow(entity, arg.options)
            /\ arg.options.relationType # Undefined =>
                 \E r \in DOMAIN entity.relationships :
                   entity.relationships[r].relation = arg.options.relationType)
           => \E i \in DOMAIN ret : ret[i] = entity

\* a query with an upper bound returned a record without facts that was
\* written after the upper bound
C11_Counterexample ==
  /\ fn = "queryEntities"
  /\ arg.options.until # NoDate
  /\ \E i \in DOMAIN ret :
       /\ ret[i].facts = <<>>
       /\ ret[i].lastUpdated > arg.options.until

\* ------------------------------------------------- calculateConfidenceUpdate
\* Confidences and strengths are in thousandths; the inputs are multiples of
\* 100, for which strength * (1 - c) * 0.2 and strength * c * 0.3 are whole
\* numbers of thousandths.
max(a, b) == IF a > b THEN a ELSE b
min(a, b) == IF a < b THEN a ELSE b

calculateConfidenceUpdate(currentConfidence, evidenceType, evidenceStrength) ==
  CHOOSE update \in
    { CHOOSE clamped \in
        { [confidence |-> max(0, min(1000, currentConfidence + delta)),
           reason |-> <<evidenceType, toFixed2(strength)>>] :
            delta \in { IF evidenceType = "supporting"
                        THEN (strength * (1000 - currentConfidence) * 2) \div 10000
                        ELSE -((strength * currentConfidence * 3) \div 10000) } } : TRUE :
        strength \in {max(0, min(1000, evidenceStrength))} } : TRUE

\* Evidence
Evidence(factId, type, strength, addedAt) ==
  [factId |-> factId, type |-> type, strength |-> strength, addedAt |-> addedAt]

\* [...evidence].sort((a, b) => b.strength - a.strength): strongest first, and
\* evidence of equal strength in the order it had (Array.prototype.sort is stable)
RECURSIVE insertEvidence(_, _)
insertEvidence(sorted, ev) ==
  IF sorted = <<>> THEN <<ev>>
  ELSE IF Head(sorted).strength >= ev.strength
       THEN <<Head(sorted)>> \o insertEvidence(Tail(sorted), ev)
       ELSE <<ev>> \o sorted

\* [...evidence], had it been left in the order listed
sortEvidence_asListed(evidence) ==
  evidence

RECURSIVE sortEvidence(_)
sortEvidence(evidence) ==
  IF evidence = <<>> THEN <<>>
  ELSE CHOOSE sorted \in
         { insertEvidence(front, evidence[Len(evidence)]) :
             front \in {sortEvidence(SubSeq(evidence, 1, Len(evidence) - 1))} } : TRUE

RECURSIVE applyEvidence(_, _)
applyEvidence(confidence, sortedEvidence) ==
  IF sortedEvidence = <<>> THEN confidence
  ELSE CHOOSE result \in
         { applyEvidence(update.confidence, Tail(sortedEvidence)) :
             update \in { calculateConfidenceUpdate(confidence, Head(sortedEvidence).type,
                                                    Head(sortedEvidence).strength) } } : TRUE

calculateConfidenceFromEvidence(initialConfidence, evidence) ==
  CHOOSE confidence \in
    { applyEvidence(initialConfidence, sortedEvidence) :
        sortedEvidence \in {sortEvidence(evidence)} } : TRUE

EvidenceTypes == {"supporting", "contradicting"}
ConfidenceInputs == {100 * k : k \in -1..11}
StrengthInputs == {100 * k : k \in -1..11}

CalculateConfidenceUpdate ==
  \E currentConfidence \in ConfidenceInputs, evidenceType \in EvidenceTypes,
     evidenceStrength \in StrengthInputs :
    /\ fn' = "calculateConfidenceUpdate"
    /\ arg' = [currentConfidence |-> currentConfidence, evidenceType |-> evidenceType,
               evidenceStrength |-> evidenceStrength]
    /\ ret' = calculateConfidenceUpdate(currentConfidence, evidenceType, evidenceStrength)
    /\ UNCHANGED <<storeVars, codecVars, raceVars, scorerVars, opinionVars, ledgerVars>>

EvidenceInputs ==
  {Evidence(<<"ev", 0, 0>>, type, strength, 1) : type \in EvidenceTypes, strength \in {0, 500, 1000}}

\* three items of pairwise different strength, in each of their orders
DistinctStrengthLists ==
  { [i \in 1..3 |-> items[p[i]]] :
      p \in Permutations(1..3),
      items \in {<<Evidence(<<"ev", 0, 0>>, "supporting", 1000, 1),
                   Evidence(<<"ev", 0, 0>>, "contradicting", 500, 1),
                   Evidence(<<"ev", 0, 0>>, "supporting", 300, 1)>>} }

EvidenceListInputs ==
  {<<>>} \cup {<<e>> : e \in EvidenceInputs}
  \cup {<<e1, e2>> : e1 \in EvidenceInputs, e2 \in EvidenceInputs}
  \cup DistinctStrengthLists

\* ret.evidence is the caller's array after the call: the function sorts a
\* copy, [...evidence], and never writes to the array it was given
CalculateConfidenceFromEvidence ==
  \E initialConfidence \in {200, 500}, evidence \in EvidenceListInputs :
    /\ fn' = "calculateConfidenceFromEvidence"
    /\ arg' = [initialConfidence |-> initialConfidence, evidence |-> evidence]
    /\ ret' = [confidence |-> calculateConfidenceFromEvidence(initialConfidence, evidence),
               evidence |-> evidence]
    /\ UNCHANGED <<storeVars, codecVars, raceVars, scorerVars, opinionVars, ledgerVars>>

ConfidenceInit ==
  /\ StoreInit
  /\ CodecIdle
  /\ RaceIdle
  /\ ScorerIdle
  /\ LedgerIdle
  /\ OpinionIdle
  /\ CallIdle

ConfidenceNext ==
  \/ CalculateConfidenceUpdate
  \/ CalculateConfidenceFromEvidence

SpecConfidence == ConfidenceInit /\ [][ConfidenceNext]_vars

\* C12: from a confidence strictly between 0 and 1, one update with supporting
\* evidence returns a strictly greater confidence and one with contradicting
\* evidence a strictly smaller one, whatever strength is passed; the returned
\* confidence always lies in [0,1].
C12_UpdateStrictlyMonotone ==
  fn = "calculateConfidenceUpdate" =>
    /\ ret.confidence >= 0 /\ ret.confidence <= 1000
    /\ (arg.currentConfidence > 0 /\ arg.currentConfidence < 1000) =>
         /\ arg.evidenceType = "supporting" => ret.confidence > arg.currentConfidence
         /\ arg.evidenceType = "contradicting" => ret.confidence < arg.currentConfidence

\* an update with evidence of strength 0 returned the confidence it was given
C12_Counterexample ==
  /\ fn = "calculateConfidenceUpdate"
  /\ arg.currentConfidence = 500
  /\ arg.evidenceStrength = 0
  /\ ret.confidence = 500

\* ----------------------------------------------------------- detectConflicts
\* The content of an opinion is its words, each the sequence of its characters;
\* the words are separated by single blanks in the string.

MaxOpinions == 3     \* longest list of opinions given to detectConflicts

\* OpinionState
OpinionState(fact, confidence, supportingEvidence, contradictingEvidence, lastUpdated) ==
  [fact |-> fact, confidence |-> confidence, supportingEvidence |-> supportingEvidence,
   contradictingEvidence |-> contradictingEvidence, lastUpdated |-> lastUpdated]

negationWords ==
  << <<"n","o","t">>, <<"n","o">>, <<"n","e","v","e","r">>, <<"n","o","n","e">>,
     <<"d","o","e","s","n","'","t">>, <<"d","o","n","'","t">>, <<"w","o","n","'","t">>,
     <<"c","a","n","'","t">> >>

\* content.toLowerCase()
lowerContent(content) == MapSeq(content, LAMBDA w : MapSeq(w, toLowerCase))

\* String.prototype.includes, for a word without blanks
includes(content, word) ==
  \E k \in DOMAIN content :
    \E from \in 1..(Len(content[k]) - Len(word) + 1) :
      SubSeq(content[k], from, from + Len(word) - 1) = word

\* negationWords.some((word) => content.includes(word))
hasNegation(content) == \E n \in DOMAIN negationWords : includes(content, negationWords[n])

\* new Set(content.split(/\s+/).filter((w) => w.length > 3))
longWords(content) == {content[k] : k \in {k \in DOMAIN content : Len(content[k]) > 3}}

\* similarity > bound / 10, with similarity = overlap / Math.max(1, totalUnique)
similarityAbove(words1, words2, bound) ==
  10 * Cardinality(words1 \cap words2) > bound * max(1, Cardinality(words1 \cup words2))

sharedEntities(fact1, fact2) ==
  SelectSeq(fact1.entities, LAMBDA e : e \in Range(fact2.entities))

areContradictory(fact1, fact2) ==
  \E content1 \in {lowerContent(fact1.content)}, content2 \in {lowerContent(fact2.content)} :
    /\ hasNegation(content1) # hasNegation(content2)
    /\ Len(sharedEntities(fact1, fact2)) > 0
    /\ similarityAbove(longWords(content1), longWords(content2), 3)

abs(x) == IF x < 0 THEN -x ELSE x

\* fact.confidence || 0
confidenceOrZero(fact) == IF fact.confidence = NoConf THEN 0 ELSE fact.confidence

areInconsistent(fact1, fact2) ==
  /\ Len(sharedEntities(fact1, fact2)) # 0
  /\ similarityAbove(longWords(lowerContent(fact1.content)),
                     longWords(lowerContent(fact2.content)), 4)
  /\ abs(confidenceOrZero(fact1) - confidenceOrZero(fact2)) > 300

\* [...new Set([...a, ...b])]: the first occurrence of each name, in order
RECURSIVE unique(_)
unique(s) ==
  IF s = <<>> THEN <<>>
  ELSE CHOOSE u \in
         { IF s[Len(s)] \in Range(front) THEN front ELSE Append(front, s[Len(s)]) :
             front \in {unique(SubSeq(s, 1, Len(s) - 1))} } : TRUE

\* Conflict
Conflict(op1, op2, type, severity) ==
  [factId1 |-> op1.fact.id, factId2 |-> op2.fact.id, type |-> type, severity |-> severity,
   description |-> <<type, op1.fact.content, op2.fact.content>>,
   entities |-> unique(op1.fact.entities \o op2.fact.entities)]

\* the body of the inner loop of detectConflicts: what a pair adds to conflicts
pairConflicts(op1, op2) ==
  (IF areContradictory(op1.fact, op2.fact)
   THEN <<Conflict(op1, op2, "contradiction", abs(op1.confidence - op2.confidence))>>
   ELSE <<>>)
  \o (IF areInconsistent(op1.fact, op2.fact)
      THEN <<Conflict(op1, op2, "inconsistency",
                      (abs(op1.confidence - op2.confidence) * 7) \div 10)>>
      ELSE <<>>)

\* conflicts.sort((a, b) => b.severity - a.severity): a stable sort
RECURSIVE insertConflict(_, _)
insertConflict(sorted, c) ==
  IF sorted = <<>> THEN <<c>>
  ELSE IF Head(sorted).severity >= c.severity
       THEN <<Head(sorted)>> \o insertConflict(Tail(sorted), c)
       ELSE <<c>> \o sorted

RECURSIVE sortConflicts(_)
sortConflicts(conflicts) ==
  IF conflicts = <<>> THEN <<>>
  ELSE CHOOSE sorted \in
         { insertConflict(front, conflicts[Len(conflicts)]) :
             front \in {sortConflicts(SubSeq(conflicts, 1, Len(conflicts) - 1))} } : TRUE

\* the conflicts in the order the two loops push them
pushedConflicts(opinions) ==
  Flatten([i \in 1..Len(opinions) |->
             Flatten([d \in 1..(Len(opinions) - i) |->
                        pairConflicts(opinions[i], opinions[i + d])])])

detectConflicts_unsorted(opinions) == pushedConflicts(opinions)

detectConflicts(opinions) ==
  CHOOSE sorted \in {sortConflicts(conflicts) : conflicts \in {pushedConflicts(opinions)}} : TRUE

likes == <<"l","i","k","e","s">>
beans == <<"b","e","a","n","s">>
Beans == <<"B","e","a","n","s">>
daily == <<"d","a","i","l","y">>
never == <<"n","e","v","e","r">>
know == <<"k","n","o","w">>
tea == <<"t","e","a">>

OpinionFact(n, content, entities, confidence) ==
  Fact(<<"fact", n, 0>>, "opinion", content, entities, confidence, NoPath, 1)

OpinionInputs ==
  { OpinionState(OpinionFact(1, <<likes, Beans, daily>>, <<<<"a">>>>, 900), 900, <<>>, <<>>, 1),
    OpinionState(OpinionFact(2, <<never, likes, beans, daily>>, <<<<"a">>>>, 200), 200, <<>>, <<>>, 1),
    OpinionState(OpinionFact(3, <<know, beans, daily>>, <<<<"a">>, <<"b">>>>, 500), 500, <<>>, <<>>, 1),
    OpinionState(OpinionFact(4, <<likes, tea>>, <<<<"b">>>>, 100), 100, <<>>, <<>>, 1),
    OpinionState(OpinionFact(5, <<likes, beans, daily>>, <<<<"a">>>>, NoConf), 500, <<>>, <<>>, 1) }

\* the caller puts one more opinion on the list it will pass
ListOpinion ==
  \E opinion \in OpinionInputs :
    /\ Len(arg) < MaxOpinions
    /\ fn' = "none"
    /\ arg' = Append(arg, opinion)
    /\ ret' = <<>>
    /\ UNCHANGED <<storeVars, codecVars, raceVars, scorerVars, opinionVars, ledgerVars>>

DetectConflicts ==
  /\ fn' = "detectConflicts"
  /\ ret' = detectConflicts(arg)
  /\ UNCHANGED <<arg, storeVars, codecVars, raceVars, scorerVars, opinionVars, ledgerVars>>

ConflictsInit ==
  /\ StoreInit
  /\ CodecIdle
  /\ RaceIdle
  /\ ScorerIdle
  /\ LedgerIdle
  /\ OpinionIdle
  /\ CallIdle

ConflictsNext ==
  \/ ListOpinion
  \/ DetectConflicts

SpecConflicts == ConflictsInit /\ [][ConflictsNext]_vars

\* the conflicts as (unordered pair of fact ids, type, severity)
ConflictSet(conflicts) ==
  {<<{conflicts[i].factId1, conflicts[i].factId2}, conflicts[i].type, conflicts[i].severity>> :
     i \in DOMAIN conflicts}

\* the lists that hold the same opinions as s in another order
Reorderings(s) ==
  {[i \in 1..Len(s) |-> s[p[i]]] :
     p \in {q \in [1..Len(s) -> 1..Len(s)] : \A i, j \in 1..Len(s) : i # j => q[i] # q[j]}}

\* C13: whatever the order of the list given to detectConflicts, the same set
\* of (unordered pair of fact ids, conflict type, severity) is reported (so
\* [a,b] and [b,a] report the same types with equal severities), and the
\* conflicts are returned by severity, highest first.
C13_ConflictsOrderIndependent ==
  fn = "detectConflicts" =>
    /\ \A i \in 1..(Len(ret) - 1) : ret[i].severity >= ret[i + 1].severity
    /\ \A other \in Reorderings(arg) :
         ConflictSet(detectConflicts(other)) = ConflictSet(ret)

\* three opinions were compared; conflicts of both types and of different
\* severities came out, the first pushed not being the most severe
C13_Witness ==
  /\ fn = "detectConflicts"
  /\ Len(arg) = 3
  /\ \E i, j \in DOMAIN ret :
       /\ ret[i].type = "contradiction"
       /\ ret[j].type = "inconsistency"
       /\ ret[i].severity # ret[j].severity
  /\ pushedConflicts(arg) # ret

\* ---------------------------------------------------------- opinions manager
\* bank/opinions.md is a sequence of lines, each a tuple with its kind first:
\*   <<"h1">>  <<"blank">>  <<"text">>  <<"none">>  <<"h2", entity>>
\*   <<"h3", characters>>  <<"conf", hundredths>>  <<"updated", day>>
\*   <<"factid", id>>  <<"sup">>  <<"con">>  <<"ev", fact id, hundredths>>

MaxOpinionOps == 3     \* calls of the opinions manager in a behaviour
TicksPerDay == 2       \* clock values in a calendar day
HeaderLength == 60     \* characters of the content an opinion header shows
DefaultInitialConfidence == 500

opinionsFile == <<"bank", <<"opinions.md">>>>

\* UTF-16 code units of the characters names are sorted by
charCode(c) ==
  CASE c = "A" -> 65
    [] c = "B" -> 66
    [] c = "a" -> 97
    [] c = "b" -> 98
    [] OTHER -> 0

\* the order of Array.prototype.sort() without a comparator, on strings
RECURSIVE stringBefore(_, _)
stringBefore(x, y) ==
  IF x = <<>> THEN y # <<>>
  ELSE IF y = <<>> THEN FALSE
  ELSE IF charCode(Head(x)) # charCode(Head(y)) THEN charCode(Head(x)) < charCode(Head(y))
  ELSE stringBefore(Tail(x), Tail(y))

RECURSIVE insertString(_, _)
insertString(sorted, x) ==
  IF sorted = <<>> THEN <<x>>
  ELSE IF stringBefore(x, Head(sorted)) THEN <<x>> \o sorted
  ELSE <<Head(sorted)>> \o insertString(Tail(sorted), x)

RECURSIVE sortStrings(_)
sortStrings(s) ==
  IF s = <<>> THEN <<>>
  ELSE CHOOSE sorted \in
         { insertString(front, s[Len(s)]) : front \in {sortStrings(SubSeq(s, 1, Len(s) - 1))} } :
         TRUE

\* the string whose words content holds: the words with one blank between them
RECURSIVE joinWords(_)
joinWords(content) ==
  IF content = <<>> THEN <<>>
  ELSE IF Len(content) = 1 THEN Head(content)
  ELSE Head(content) \o <<" ">> \o joinWords(Tail(content))

\* the words of a string
RECURSIVE splitWords(_, _)
splitWords(chars, word) ==
  IF chars = <<>> THEN (IF word = <<>> THEN <<>> ELSE <<word>>)
  ELSE IF Head(chars) = " "
       THEN (IF word = <<>> THEN <<>> ELSE <<word>>) \o splitWords(Tail(chars), <<>>)
       ELSE splitWords(Tail(chars), Append(word, Head(chars)))

\* `### ${content.slice(0, 60)}...`: the characters after "### ", "." three times at the end
opinionHeader(content) ==
  CHOOSE header \in
    { SubSeq(text, 1, min(Len(text), HeaderLength)) \o <<".", ".", ".">> :
        text \in {joinWords(content)} } : TRUE

\* trimmed.slice(4).replace(/\.\.\.$/, "")
headerContent(chars) ==
  CHOOSE content \in
    { IF Len(trimmed) >= 3 /\ SubSeq(trimmed, Len(trimmed) - 2, Len(trimmed)) = <<".", ".", ".">>
      THEN SubSeq(trimmed, 1, Len(trimmed) - 3) ELSE trimmed :
        trimmed \in {trimEnd(chars)} } : TRUE

\* new Date(t).toLocaleDateString(): the day
toLocaleDateString(t) == t \div TicksPerDay

\* new Date(dateStr).getTime(): the beginning of the day
dateOf(day) == day * TicksPerDay

opinionEvidenceLines(title, evidence) ==
  IF Len(evidence) > 0
  THEN <<<<title>>>>
       \o [i \in 1..Len(evidence) |-> <<"ev", evidence[i].factId, toFixed2(evidence[i].strength)>>]
       \o <<<<"blank">>>>
  ELSE <<>>

opinionLines(opinion) ==
  << <<"h3", opinionHeader(opinion.fact.content)>>, <<"blank">>,
     <<"conf", toFixed2(opinion.confidence)>>,
     <<"updated", toLocaleDateString(opinion.lastUpdated)>>,
     <<"factid", opinion.fact.id>>, <<"blank">> >>
  \o opinionEvidenceLines("sup", opinion.supportingEvidence)
  \o opinionEvidenceLines("con", opinion.contradictingEvidence)

\* byEntity.get(entity): an opinion once for every time its fact names the entity
entityOpinions(opinions, entity) ==
  Flatten(MapSeq(opinions,
                 LAMBDA o : Flatten(MapSeq(o.fact.entities,
                                           LAMBDA e : IF e = entity THEN <<o>> ELSE <<>>))))

\* OpinionsManager.generateOpinionsMarkdown
generateOpinionsMarkdown(opinions) ==
  << <<"h1">>, <<"blank">>, <<"text">>, <<"blank">> >>
  \o (IF Len(opinions) = 0 THEN << <<"none">>, <<"blank">> >>
      ELSE CHOOSE body \in
             { Flatten(MapSeq(sortedEntities,
                              LAMBDA entity :
                                << <<"h2", entity>>, <<"blank">> >>
                                \o Flatten(MapSeq(entityOpinions(opinions, entity), opinionLines)))) :
                 sortedEntities \in
                   { sortStrings(unique(Flatten(MapSeq(opinions, LAMBDA o : o.fact.entities)))) } } :
             TRUE)

NoOpinion == OpinionState(NoFact, 0, <<>>, <<>>, 0)

\* one line of parseOpinionsMarkdown; st.current is NoOpinion while currentOpinion is null
parseOpinionLine(st, line, t) ==
  LET k == line[1] IN
  CASE k = "h2" -> [st EXCEPT !.currentEntity = trimEnd(line[2])]
    [] k = "h3" ->
         [st EXCEPT
            !.opinions = IF st.current # NoOpinion THEN Append(st.opinions, st.current)
                         ELSE st.opinions,
            !.current =
               OpinionState(Fact(NoId, "opinion", splitWords(headerContent(line[2]), <<>>),
                                 IF st.currentEntity # <<>> THEN <<st.currentEntity>> ELSE <<>>,
                                 DefaultInitialConfidence, opinionsFile, t),
                            DefaultInitialConfidence, <<>>, <<>>, t),
            !.currentSection = ""]
    [] k = "conf" /\ st.current # NoOpinion ->
         [st EXCEPT !.current.confidence = parseFloat(line[2]),
                    !.current.fact.confidence = parseFloat(line[2])]
    [] k = "updated" /\ st.current # NoOpinion ->
         [st EXCEPT !.current.lastUpdated = dateOf(line[2])]
    [] k = "factid" /\ st.current # NoOpinion -> [st EXCEPT !.current.fact.id = line[2]]
    [] k = "sup" -> [st EXCEPT !.currentSection = "supporting"]
    [] k = "con" -> [st EXCEPT !.currentSection = "contradicting"]
    [] k = "ev" /\ st.currentSection = "supporting" /\ st.current # NoOpinion ->
         [st EXCEPT !.current.supportingEvidence =
                       Append(@, Evidence(line[2], "supporting", parseFloat(line[3]), t))]
    [] k = "ev" /\ st.currentSection = "contradicting" /\ st.current # NoOpinion ->
         [st EXCEPT !.current.contradictingEvidence =
                       Append(@, Evidence(line[2], "contradicting", parseFloat(line[3]), t))]
    [] OTHER -> st

RECURSIVE parseOpinionLines(_, _, _, _)
parseOpinionLines(lines, i, st, t) ==
  IF i > Len(lines) THEN st
  ELSE CHOOSE done \in
         { parseOpinionLines(lines, i + 1, next, t) :
             next \in {parseOpinionLine(st, lines[i], t)} } : TRUE

\* OpinionsManager.parseOpinionsMarkdown, read at clock value t
parseOpinionsMarkdown(lines, t) ==
  CHOOSE opinions \in
    { IF st.current # NoOpinion THEN Append(st.opinions, st.current) ELSE st.opinions :
        st \in { parseOpinionLines(lines, 1,
                                   [opinions |-> <<>>, currentEntity |-> <<>>,
                                    current |-> NoOpinion, currentSection |-> ""], t) } } : TRUE

\* OpinionsManager.loadOpinions: [] when the file does not exist
loadOpinions(file, t) ==
  IF file.exists THEN parseOpinionsMarkdown(file.lines, t) ELSE <<>>

\* OpinionsManager.saveOpinions
saveOpinions(opinions) == [exists |-> TRUE, lines |-> generateOpinionsMarkdown(opinions)]

\* opinions.find((o) => o.fact.id === id): its index, 0 when there is none
findOpinion(opinions, id) ==
  IF \E i \in DOMAIN opinions : opinions[i].fact.id = id
  THEN CHOOSE i \in DOMAIN opinions :
         /\ opinions[i].fact.id = id
         /\ \A j \in 1..(i - 1) : opinions[j].fact.id # id
  ELSE 0

\* what a call of the opinions manager leaves: the file, how it ended, the opinion returned
OpinionOutcome(file, result, opinion) == [file |-> file, result |-> result, opinion |-> opinion]

\* OpinionsManager.addOpinion at clock value t
addOpinion(file, fact, initialConfidence, t) ==
  IF fact.type # "opinion" THEN OpinionOutcome(file, "threw", NoOpinion)
  ELSE CHOOSE out \in
    { CHOOSE saved \in
        { IF existing # 0
          THEN CHOOSE updated \in
                 { OpinionOutcome(saveOpinions([opinions EXCEPT ![existing] = entry]), "ok", entry) :
                     entry \in { [opinions[existing] EXCEPT
                                    !.fact = fact,
                                    !.confidence = IF fact.confidence = NoConf
                                                   THEN initialConfidence ELSE fact.confidence,
                                    !.lastUpdated = t] } } : TRUE
          ELSE CHOOSE added \in
                 { OpinionOutcome(saveOpinions(Append(opinions, opinion)), "ok", opinion) :
                     opinion \in
                       { OpinionState([fact EXCEPT !.confidence =
                                          IF fact.confidence = NoConf
                                          THEN initialConfidence ELSE fact.confidence],
                                      IF fact.confidence = NoConf
                                      THEN initialConfidence ELSE fact.confidence,
                                      <<>>, <<>>, t) } } : TRUE :
            existing \in {findOpinion(opinions, fact.id)} } : TRUE :
        opinions \in {loadOpinions(file, t)} } : TRUE

\* updateOpinionConfidence at clock value t
updateOpinionConfidence(opinion, evidence, t) ==
  CHOOSE updated \in
    { CHOOSE recalculated \in
        { [withEvidence EXCEPT
             !.fact.confidence = newConfidence,
             !.confidence = newConfidence,
             !.lastUpdated = t,
             !.fact.supportingEvidence =
                [i \in 1..Len(withEvidence.supportingEvidence) |->
                   withEvidence.supportingEvidence[i].factId],
             !.fact.contradictingEvidence =
                [i \in 1..Len(withEvidence.contradictingEvidence) |->
                   withEvidence.contradictingEvidence[i].factId]] :
            newConfidence \in
              { calculateConfidenceFromEvidence(
                  IF opinion.fact.confidence = NoConf \/ opinion.fact.confidence = 0
                  THEN DefaultInitialConfidence ELSE opinion.fact.confidence,
                  withEvidence.supportingEvidence \o withEvidence.contradictingEvidence) } } :
        TRUE :
        withEvidence \in
          { IF evidence.type = "supporting"
            THEN [opinion EXCEPT !.supportingEvidence = Append(@, evidence)]
            ELSE [opinion EXCEPT !.contradictingEvidence = Append(@, evidence)] } } : TRUE

\* OpinionsManager.updateConfidence on an unknown id, had it saved what it loaded
updateConfidence_saveUnknown(file, factId, evidence, t) ==
  CHOOSE out \in
    { CHOOSE found \in
        { IF index = 0 THEN OpinionOutcome(saveOpinions(opinions), "null", NoOpinion)
          ELSE CHOOSE saved \in
                 { OpinionOutcome(saveOpinions([opinions EXCEPT ![index] = updated]), "ok", updated) :
                     updated \in {updateOpinionConfidence(opinions[index], evidence, t)} } : TRUE :
            index \in {findOpinion(opinions, factId)} } : TRUE :
        opinions \in {loadOpinions(file, t)} } : TRUE

\* OpinionsManager.updateConfidence at clock value t
updateConfidence(file, factId, evidence, t) ==
  CHOOSE out \in
    { CHOOSE found \in
        { IF index = 0 THEN OpinionOutcome(file, "null", NoOpinion)
          ELSE CHOOSE saved \in
                 { OpinionOutcome(saveOpinions([opinions EXCEPT ![index] = updated]), "ok", updated) :
                     updated \in {updateOpinionConfidence(opinions[index], evidence, t)} } : TRUE :
            index \in {findOpinion(opinions, factId)} } : TRUE :
        opinions \in {loadOpinions(file, t)} } : TRUE


OpinionIds == {<<"fact", 1, 0>>, <<"fact", 2, 0>>}
UnknownId == <<"fact", 3, 0>>

OpinionFactInputs ==
  {Fact(id, "opinion", <<likes, tea>>, entities, confidence, NoPath, 1) :
     id \in OpinionIds, entities \in {<<>>, <<<<"a">>>>, <<<<"b">>, <<"a">>>>},
     confidence \in {NoConf}}
  \cup {Fact(<<"fact", 1, 0>>, "opinion", <<likes, beans>>, <<<<"a">>>>, 700, NoPath, 1),
        Fact(<<"fact", 1, 0>>, "world", <<likes, tea>>, <<<<"a">>>>, NoConf, NoPath, 1)}

OpinionEvidenceInputs(t) ==
  {Evidence(<<"ev", 0, 0>>, type, 500, t) : type \in EvidenceTypes}

\* a call of the opinions manager has returned
OpinionCompleted(op, factId, fact, evidence, out) ==
  /\ \E o \in {out} :
       /\ oFile' = o.file
       /\ oLast' = [op |-> op, factId |-> factId, fact |-> fact, result |-> o.result,
                    returned |-> IF o.result = "ok" THEN <<o.opinion>> ELSE <<>>,
                    before |-> oFile,
                    added |-> IF op = "addOpinion" /\ o.result = "ok"
                              THEN oLast.added \cup {factId} ELSE oLast.added,
                    onlyAdds |-> oLast.onlyAdds /\ op = "addOpinion",
                    evidence |-> evidence]
  /\ opCount' = opCount + 1
  /\ UNCHANGED <<files, now, nextUuid, last, codecVars, raceVars, scorerVars, callVars, ledgerVars>>

AddOpinion ==
  \E fact \in OpinionFactInputs :
    /\ opCount < MaxOpinionOps
    /\ OpinionCompleted("addOpinion", fact.id, fact, <<>>,
                        addOpinion(oFile, fact, DefaultInitialConfidence, now))

UpdateConfidence ==
  \E factId \in OpinionIds \cup {UnknownId}, evidence \in OpinionEvidenceInputs(now) :
    /\ opCount < MaxOpinionOps
    /\ OpinionCompleted("updateConfidence", factId, NoFact, <<evidence>>,
                        updateConfidence(oFile, factId, evidence, now))

OpinionTick ==
  /\ now <= opCount
  /\ opCount < MaxOpinionOps
  /\ now' = now + 1
  /\ UNCHANGED <<files, nextUuid, opCount, last, codecVars, raceVars, scorerVars, callVars,
                 opinionVars, ledgerVars>>

OpinionsInit ==
  /\ StoreInit
  /\ CodecIdle
  /\ RaceIdle
  /\ ScorerIdle
  /\ LedgerIdle
  /\ OpinionIdle
  /\ CallIdle

OpinionsNext ==
  \/ AddOpinion
  \/ UpdateConfidence
  \/ OpinionTick

SpecOpinions == OpinionsInit /\ [][OpinionsNext]_vars

\* the entries of the Opinion Store with the given fact id
EntriesOf(opinions, id) == {i \in DOMAIN opinions : opinions[i].fact.id = id}

\* C14: after addOpinion calls only, loading the Opinion Store yields exactly
\* one OpinionState for every fact id that was added and none for another id,
\* whether the facts name no, one or several entities; adding a fact whose id
\* is stored already leaves one entry for it, with the evidence lists it had.
C14_OneEntryPerFactId ==
  oLast.onlyAdds =>
    /\ \A id \in oLast.added :
         Cardinality(EntriesOf(loadOpinions(oFile, now), id)) = 1
    /\ \A i \in DOMAIN loadOpinions(oFile, now) :
         loadOpinions(oFile, now)[i].fact.id \in oLast.added
    /\ (oLast.op = "addOpinion" /\ oLast.result = "ok") =>
         \A j \in EntriesOf(loadOpinions(oLast.before, now), oLast.factId) :
           \A i \in EntriesOf(loadOpinions(oFile, now), oLast.factId) :
             /\ loadOpinions(oFile, now)[i].supportingEvidence
                  = loadOpinions(oLast.before, now)[j].supportingEvidence
             /\ loadOpinions(oFile, now)[i].contradictingEvidence
                  = loadOpinions(oLast.before, now)[j].contradictingEvidence

\* an opinion naming two entities was added to an empty store, and the store
\* now holds two entries with its id
C14_Counterexample ==
  /\ oLast.op = "addOpinion"
  /\ oLast.result = "ok"
  /\ ~oLast.before.exists
  /\ Len(oLast.fact.entities) = 2
  /\ Cardinality(EntriesOf(loadOpinions(oFile, now), oLast.factId)) = 2

\* C15: updateConfidence with a fact id no stored opinion has returns null
\* (it does not throw) and leaves bank/opinions.md, hence every stored
\* opinion's confidence and evidence lists, as it was.
C15_UnknownIdChangesNothing ==
  (/\ oLast.op = "updateConfidence"
   /\ findOpinion(loadOpinions(oLast.before, now), oLast.factId) = 0)
  => /\ oLast.result = "null"
     /\ oFile = oLast.before

\* updateConfidence was called with an unknown id on a store holding opinions
C15_Witness ==
  /\ oLast.op = "updateConfidence"
  /\ oLast.factId = UnknownId
  /\ oLast.result = "null"
  /\ Len(loadOpinions(oLast.before, now)) > 0

\* ------------------------------------------------------ computeImportanceScore
\* Scores are in millionths. The clock counts whole days here, so that
\* daysSinceUpdate is Date.now() - lastUpdated. Weights are in tenths, the
\* recency decay in hundredths per day.

MaxCount == 3        \* highest count of a signal in a record given to computeImportanceScore
MaxRaw == 48         \* the sigmoid is tabulated for raw in -4.8 .. 4.8

DEFAULT_WEIGHTS == [retrieval |-> 3, citation |-> 5, userCorrection |-> -8, recencyDecayPerDay |-> 2]

\* 1 / (1 + Math.exp(-raw)) in millionths, for raw = -4.8, -4.7, .. 4.8
sigmoidTable ==
  <<
     8163, 9013, 9952, 10987, 12128, 13387, 14774, 16302,
     17986, 19840, 21881, 24127, 26597, 29312, 32295, 35571,
     39166, 43107, 47426, 52154, 57324, 62973, 69138, 75858,
     83173, 91123, 99750, 109097, 119203, 130108, 141851, 154465,
     167982, 182426, 197816, 214165, 231475, 249740, 268941, 289050,
     310026, 331812, 354344, 377541, 401312, 425557, 450166, 475021,
     500000, 524979, 549834, 574443, 598688, 622459, 645656, 668188,
     689974, 710950, 731059, 750260, 768525, 785835, 802184, 817574,
     832018, 845535, 858149, 869892, 880797, 890903, 900250, 908877,
     916827, 924142, 930862, 937027, 942676, 947846, 952574, 956893,
     960834, 964429, 967705, 970688, 973403, 975873, 978119, 980160,
     982014, 983698, 985226, 986613, 987872, 989013, 990048, 990987,
     991837
  >>

\* 1 / (1 + Math.exp(-raw)) for raw in tenths
sigmoid(raw) == sigmoidTable[raw + MaxRaw + 1]

computeImportanceScore(record, weights, t) ==
  CHOOSE score \in
    { max(0, min(1000000, (normalized * recencyFactor) \div 100)) :
        recencyFactor \in {max(0, 100 - weights.recencyDecayPerDay * (t - record.lastUpdated))},
        normalized \in
          { sigmoid(record.retrievalCount * weights.retrieval
                    + record.citationCount * weights.citation
                    + record.userCorrectionCount * weights.userCorrection) } } : TRUE

CountInputs == 0..MaxCount
AgeInputs == {0, 1, 50}       \* days since the record was updated
ScoreClock == 50              \* Date.now() of the calls, in days

ComputeImportanceScore ==
  \E retrievalCount \in CountInputs, citationCount \in CountInputs,
     userCorrectionCount \in CountInputs, age \in AgeInputs :
    \E record \in {ImportanceRecord(retrievalCount, citationCount, userCorrectionCount,
                                     ScoreClock - age)} :
      /\ fn' = "computeImportanceScore"
      /\ arg' = [record |-> record, weights |-> DEFAULT_WEIGHTS, t |-> ScoreClock]
      /\ ret' = [score |-> computeImportanceScore(record, DEFAULT_WEIGHTS, ScoreClock)]
      /\ UNCHANGED <<storeVars, codecVars, raceVars, scorerVars, opinionVars, ledgerVars>>

ImportanceInit ==
  /\ StoreInit
  /\ CodecIdle
  /\ RaceIdle
  /\ ScorerIdle
  /\ LedgerIdle
  /\ OpinionIdle
  /\ CallIdle

ImportanceNext == ComputeImportanceScore

SpecImportance == ImportanceInit /\ [][ImportanceNext]_vars

\* C17: with the default weights computeImportanceScore returns exactly 0.5
\* for a record whose three counts are 0; for any record one more citation,
\* the other fields fixed, gives a strictly higher score and one more user
\* correction a strictly lower score.
C17_ScoreMidpointAndMonotone ==
  fn = "computeImportanceScore" =>
    /\ (/\ arg.record.retrievalCount = 0
        /\ arg.record.citationCount = 0
        /\ arg.record.userCorrectionCount = 0) => ret.score = 500000
    /\ computeImportanceScore([arg.record EXCEPT !.citationCount = @ + 1], arg.weights, arg.t)
         > ret.score
    /\ computeImportanceScore([arg.record EXCEPT !.userCorrectionCount = @ + 1], arg.weights, arg.t)
         < ret.score

\* a record with all counts 0 that was updated the day before scores 0.49
C17_Counterexample ==
  /\ fn = "computeImportanceScore"
  /\ arg.record.retrievalCount = 0
  /\ arg.record.citationCount = 0
  /\ arg.record.userCorrectionCount = 0
  /\ arg.record.lastUpdated = arg.t - 1
  /\ ret.score = 490000

\* ------------------------------------------- importance scorers by workspace
\* A key is <<path>> for `path` and <<path, startLine>> for `${path}#L${startLine}`.
\* The clock counts whole days, as for computeImportanceScore.

MaxLedgerOps == 3     \* calls of the importance scorers in a behaviour
NoLine == -1          \* startLine undefined
DefaultLimit == 50    \* getTopKeys: limit

\* new ImportanceScorer(workspaceDir)
newScorer == [store |-> NoRecords, dirty |-> FALSE]

\* getImportanceScorer: the cache afterwards
getImportanceScorer(cache, ws) ==
  IF ws \in DOMAIN cache THEN cache
  ELSE [w \in DOMAIN cache \cup {ws} |-> IF w = ws THEN newScorer ELSE cache[w]]

\* one of recordRetrieval, recordCitation, recordUserCorrection on a scorer
scorerRecord(scorer, key, field, t) ==
  [store |-> recordSignal(scorer.store, key, field, t), dirty |-> TRUE]

\* r.startLine != null ? `${r.path}#L${r.startLine}` : r.path, had it been r.path always
resultKey_pathOnly(r) == <<r.path>>

\* r.startLine != null ? `${r.path}#L${r.startLine}` : r.path
resultKey(r) == IF r.startLine # NoLine THEN <<r.path, r.startLine>> ELSE <<r.path>>

\* the loop of recordRetrievalForResults on the scorer of the workspace
RECURSIVE recordResults(_, _, _)
recordResults(scorer, results, t) ==
  IF results = <<>> THEN scorer
  ELSE CHOOSE done \in
         { recordResults(recorded, Tail(results), t) :
             recorded \in {scorerRecord(scorer, resultKey(Head(results)), "retrievalCount", t)} } :
         TRUE

\* recordRetrievalForResults: the cache afterwards
recordRetrievalForResults(cache, workspaceDir, results, t) ==
  IF Len(results) = 0 THEN cache
  ELSE CHOOSE after \in
         { [created EXCEPT ![workspaceDir] = recordResults(created[workspaceDir], results, t)] :
             created \in {getImportanceScorer(cache, workspaceDir)} } : TRUE

\* ImportanceScorer.load on a scorer
scorerLoad(scorer, file) == [scorer EXCEPT !.store = load(scorer.store, file)]

\* ImportanceScorer.save, had it written whether dirty or not
save_always(scorer, file) ==
  [scorer |-> [scorer EXCEPT !.dirty = FALSE], file |-> [exists |-> TRUE, data |-> scorer.store]]

\* ImportanceScorer.save: the scorer and the file afterwards
save(scorer, file) ==
  IF ~scorer.dirty THEN [scorer |-> scorer, file |-> file]
  ELSE [scorer |-> [scorer EXCEPT !.dirty = FALSE],
        file |-> [exists |-> TRUE, data |-> scorer.store]]

\* the lists getTopKeys may return: the entries with score >= minScore by
\* score, highest first (entries of equal score in the order Object.entries
\* lists them, which the ledger as a function does not record), cut at limit
topKeys(store, limit, minScore, weights, t) ==
  { [i \in 1..min(limit, Len(order)) |->
       [key |-> order[i], score |-> computeImportanceScore(store[order[i]], weights, t)]] :
      order \in
        { o \in [1..Cardinality({k \in DOMAIN store :
                                   computeImportanceScore(store[k], weights, t) >= minScore})
                 -> DOMAIN store] :
            /\ \A i \in DOMAIN o : computeImportanceScore(store[o[i]], weights, t) >= minScore
            /\ \A i, j \in DOMAIN o :
                 i < j => /\ o[i] # o[j]
                          /\ computeImportanceScore(store[o[i]], weights, t)
                               >= computeImportanceScore(store[o[j]], weights, t) } }

Result(path, startLine) == [path |-> path, startLine |-> startLine]

ResultLists ==
  { <<>>, <<Result("p", NoLine)>>,
    <<Result("p", NoLine), Result("p", 1)>>, <<Result("p", 1), Result("p", 1)>> }

LedgerKeys == {<<"p">>}

\* a call on the importance scorers has returned
LedgerCompleted(op, ws, results, returned, signal) ==
  /\ lLast' = [n |-> lLast.n + 1, op |-> op, ws |-> ws, results |-> results,
               returned |-> returned,
               unsaved |-> IF signal THEN lLast.unsaved \cup {ws}
                           ELSE IF op = "save" THEN lLast.unsaved \ {ws}
                           ELSE lLast.unsaved,
               signalled |-> IF signal THEN lLast.signalled \cup {ws} ELSE lLast.signalled]
  /\ UNCHANGED <<storeVars, codecVars, raceVars, scorerVars, opinionVars, callVars>>

RecordRetrievalForResults ==
  \E ws \in Workspaces, results \in ResultLists :
    /\ lLast.n < MaxLedgerOps
    /\ scorerCache' = recordRetrievalForResults(scorerCache, ws, results, now)
    /\ UNCHANGED ledgerFiles
    /\ LedgerCompleted("recordRetrievalForResults", ws, results, <<>>, results # <<>>)

\* getImportanceScorer(ws) and one of the three record* methods
ScorerRecord(op, field) ==
  \E ws \in Workspaces, key \in LedgerKeys :
    /\ lLast.n < MaxLedgerOps
    /\ \E cache \in {getImportanceScorer(scorerCache, ws)} :
         scorerCache' = [cache EXCEPT ![ws] = scorerRecord(cache[ws], key, field, now)]
    /\ UNCHANGED ledgerFiles
    /\ LedgerCompleted(op, ws, <<key>>, <<>>, TRUE)

ScorerRecordRetrieval == ScorerRecord("recordRetrieval", "retrievalCount")

ScorerRecordCitation == ScorerRecord("recordCitation", "citationCount")

ScorerRecordUserCorrection == ScorerRecord("recordUserCorrection", "userCorrectionCount")

\* getImportanceScorer(ws).getImportance(key)
ScorerGetImportance ==
  \E ws \in Workspaces, key \in LedgerKeys :
    /\ lLast.n < MaxLedgerOps
    /\ \E cache \in {getImportanceScorer(scorerCache, ws)} :
         \E loaded \in {scorerLoad(cache[ws], ledgerFiles[ws])} :
           /\ scorerCache' = [cache EXCEPT ![ws] = loaded]
           /\ LedgerCompleted("getImportance", ws, <<key>>,
                              IF key \in DOMAIN loaded.store
                              THEN <<computeImportanceScore(loaded.store[key], DEFAULT_WEIGHTS, now)>>
                              ELSE <<0>>,
                              FALSE)
    /\ UNCHANGED ledgerFiles

\* getImportanceScorer(ws).getTopKeys(limit)
ScorerGetTopKeys ==
  \E ws \in Workspaces, limit \in {1, DefaultLimit} :
    /\ lLast.n < MaxLedgerOps
    /\ \E cache \in {getImportanceScorer(scorerCache, ws)} :
         \E loaded \in {scorerLoad(cache[ws], ledgerFiles[ws])} :
           /\ scorerCache' = [cache EXCEPT ![ws] = loaded]
           /\ \E entries \in topKeys(loaded.store, limit, 0, DEFAULT_WEIGHTS, now) :
                LedgerCompleted("getTopKeys", ws, <<>>, entries, FALSE)
    /\ UNCHANGED ledgerFiles

\* getImportanceScorer(ws).save()
ScorerSave ==
  \E ws \in Workspaces :
    /\ lLast.n < MaxLedgerOps
    /\ \E cache \in {getImportanceScorer(scorerCache, ws)} :
         \E out \in {save(cache[ws], ledgerFiles[ws])} :
           /\ scorerCache' = [cache EXCEPT ![ws] = out.scorer]
           /\ ledgerFiles' = [ledgerFiles EXCEPT ![ws] = out.file]
    /\ LedgerCompleted("save", ws, <<>>, <<>>, FALSE)

LedgerTick ==
  /\ now < MaxTime
  /\ lLast.n < MaxLedgerOps
  /\ now' = now + 1
  /\ UNCHANGED <<files, nextUuid, opCount, last, codecVars, raceVars, scorerVars, opinionVars,
                 callVars, ledgerVars>>

\* ledgers an earlier run of the process may have left
InitialLedgerFiles ==
  { NoLedger,
    [exists |-> TRUE, data |-> recordSignal(NoRecords, <<"p">>, "citationCount", 1)] }

LedgersInit ==
  /\ StoreInit
  /\ CodecIdle
  /\ RaceIdle
  /\ ScorerIdle
  /\ OpinionIdle
  /\ CallIdle
  /\ scorerCache = NoScorers
  /\ ledgerFiles \in [Workspaces -> InitialLedgerFiles]
  /\ lLast = NoLedgerCall

LedgersNext ==
  \/ RecordRetrievalForResults
  \/ ScorerRecordRetrieval
  \/ ScorerRecordCitation
  \/ ScorerRecordUserCorrection
  \/ ScorerGetImportance
  \/ ScorerGetTopKeys
  \/ ScorerSave
  \/ LedgerTick

SpecLedgers == LedgersInit /\ [][LedgersNext]_vars

\* the in-memory ledger of a workspace: empty while it has no scorer
MemoryLedger(cache, ws) == IF ws \in DOMAIN cache THEN cache[ws].store ELSE NoRecords

\* C16: bank/importance.json changes in a save() step only (not in a step of
\* recordRetrieval, recordCitation, recordUserCorrection,
\* recordRetrievalForResults, getImportance or getTopKeys); a save() that
\* follows a signal recorded for the workspace leaves the file equal to the
\* in-memory ledger, and a save() with no signal recorded since the last one
\* leaves the file as it was.
C16_OnlySaveWritesLedger ==
  [][ /\ ledgerFiles' # ledgerFiles => (lLast'.n # lLast.n /\ lLast'.op = "save")
      /\ (lLast'.n # lLast.n /\ lLast'.op = "save") =>
           /\ \A ws \in Workspaces \ {lLast'.ws} : ledgerFiles'[ws] = ledgerFiles[ws]
           /\ IF lLast'.ws \in lLast.unsaved
              THEN ledgerFiles'[lLast'.ws]
                     = [exists |-> TRUE, data |-> MemoryLedger(scorerCache', lLast'.ws)]
              ELSE ledgerFiles'[lLast'.ws] = ledgerFiles[lLast'.ws] ]_vars

\* a save() wrote a ledger with a record that an earlier run had not left
C16_Witness ==
  /\ lLast.op = "save"
  /\ ledgerFiles[lLast.ws].exists
  /\ ledgerFiles[lLast.ws].data = MemoryLedger(scorerCache, lLast.ws)
  /\ \E key \in DOMAIN ledgerFiles[lLast.ws].data :
       ledgerFiles[lLast.ws].data[key].retrievalCount > 0

\* path#L<startLine>, or path when the result has no startLine
KeyOfResult(r) == IF r.startLine = NoLine THEN <<r.path>> ELSE <<r.path, r.startLine>>

\* how often the key is the key of a listed result
Listed(results, key) == Cardinality({i \in DOMAIN results : KeyOfResult(results[i]) = key})

\* the count of a ledger under a key, 0 without a record
CountOf(ledger, key, field) == IF key \in DOMAIN ledger THEN ledger[key][field] ELSE 0

\* C18: recordRetrievalForResults(ws, results) raises retrievalCount by one
\* per listed result under the key path#L<startLine>, or path without a
\* startLine, in the ledger of ws, creating the records it needs; it changes
\* no other count, no other key, no other workspace's ledger and no file;
\* with an empty list it changes nothing, and getTopKeys on a workspace that
\* never received a signal returns an empty list.
C18_RetrievalPerResult ==
  [][ /\ (lLast'.n # lLast.n /\ lLast'.op = "recordRetrievalForResults") =>
           /\ ledgerFiles' = ledgerFiles
           /\ \A ws \in Workspaces \ {lLast'.ws} :
                /\ ws \in DOMAIN scorerCache' <=> ws \in DOMAIN scorerCache
                /\ MemoryLedger(scorerCache', ws) = MemoryLedger(scorerCache, ws)
           /\ lLast'.results = <<>> => scorerCache' = scorerCache
           /\ DOMAIN MemoryLedger(scorerCache', lLast'.ws)
                = DOMAIN MemoryLedger(scorerCache, lLast'.ws)
                  \cup {KeyOfResult(lLast'.results[i]) : i \in DOMAIN lLast'.results}
           /\ \A key \in DOMAIN MemoryLedger(scorerCache', lLast'.ws) :
                /\ MemoryLedger(scorerCache', lLast'.ws)[key].retrievalCount
                     = CountOf(MemoryLedger(scorerCache, lLast'.ws), key, "retrievalCount")
                       + Listed(lLast'.results, key)
                /\ MemoryLedger(scorerCache', lLast'.ws)[key].citationCount
                     = CountOf(MemoryLedger(scorerCache, lLast'.ws), key, "citationCount")
                /\ MemoryLedger(scorerCache', lLast'.ws)[key].userCorrectionCount
                     = CountOf(MemoryLedger(scorerCache, lLast'.ws), key, "userCorrectionCount")
                /\ Listed(lLast'.results, key) = 0 =>
                     MemoryLedger(scorerCache', lLast'.ws)[key]
                       = MemoryLedger(scorerCache, lLast'.ws)[key]
      /\ (/\ lLast'.n # lLast.n
          /\ lLast'.op = "getTopKeys"
          /\ lLast'.ws \notin lLast.signalled
          /\ ~ledgerFiles[lLast'.ws].exists) => lLast'.returned = <<>> ]_vars

\* two results with a start line were recorded for a workspace whose ledger
\* had a record under the bare path, while the other workspace has a ledger
C18_Witness ==
  /\ lLast.op = "recordRetrievalForResults"
  /\ Len(lLast.results) = 2
  /\ lLast.results[1].startLine # NoLine
  /\ <<lLast.results[1].path>> \in DOMAIN MemoryLedger(scorerCache, lLast.ws)
  /\ KeyOfResult(lLast.results[1]) \in DOMAIN MemoryLedger(scorerCache, lLast.ws)
  /\ MemoryLedger(scorerCache, lLast.ws)[KeyOfResult(lLast.results[1])].retrievalCount >= 2
  /\ \E ws \in Workspaces \ {lLast.ws} : MemoryLedger(scorerCache, ws) # NoRecords

\* ------------------------------------------------- capture hook (C19, C20)
MaxCaptureOps == 1

\* one element of context.messages: an object with a string role, or anything else
RawMessage(hasRole, role, content) == [hasRole |-> hasRole, role |-> role, content |-> content]

\* context.workspaceDir: a string, or missing or of another type
WorkspaceDir(isString, path) == [isString |-> isString, path |-> path]

\* context.messages: an array, or missing or of another type
RawMessages(isArray, items) == [isArray |-> isArray, items |-> items]

\* InternalHookEvent with an AgentEndHookContext
HookEvent(type, action, workspaceDir, messages) ==
  [type |-> type, action |-> action, workspaceDir |-> workspaceDir, messages |-> messages]

toCaptureMessages(messages) ==
  MapSeq(SelectSeq(messages, LAMBDA m : m.hasRole),
         LAMBDA m : CaptureMessage(m.role, m.content))

\* what a call left: whether captureFromAgentEnd was reached, and what it returned
HookOutcome(fs, u, ran, captured, skipped, trace) ==
  [files |-> fs, uuid |-> u, ran |-> ran, captured |-> captured, skipped |-> skipped,
   trace |-> trace, threw |-> FALSE]

\* onAgentEnd, had it not looked at the event's type and action
onAgentEnd_anyEvent(fs, u, event, t) ==
  CHOOSE out \in
    { IF workspaceDir = "" \/ Len(rawMessages) = 0 THEN HookOutcome(fs, u, FALSE, 0, 0, <<>>)
      ELSE CHOOSE done \in
             { HookOutcome(run.files, run.uuid, TRUE, run.captured, run.skipped, run.trace) :
                 run \in
                   { captureFromAgentEnd(fs, u,
                                         CaptureOptions(toCaptureMessages(rawMessages),
                                                        DefaultEntity, DefaultMaxFactsPerRun),
                                         t) } } : TRUE :
        workspaceDir \in {IF event.workspaceDir.isString THEN event.workspaceDir.path ELSE ""},
        rawMessages \in {IF event.messages.isArray THEN event.messages.items ELSE <<>>} } : TRUE

\* onAgentEnd on the store of the workspace the event names, at clock value t
onAgentEnd(fs, u, event, t) ==
  IF event.type # "agent" \/ event.action # "end" THEN HookOutcome(fs, u, FALSE, 0, 0, <<>>)
  ELSE CHOOSE out \in
    { IF workspaceDir = "" \/ Len(rawMessages) = 0 THEN HookOutcome(fs, u, FALSE, 0, 0, <<>>)
      ELSE CHOOSE done \in
             { HookOutcome(run.files, run.uuid, TRUE, run.captured, run.skipped, run.trace) :
                 run \in
                   { captureFromAgentEnd(fs, u,
                                         CaptureOptions(toCaptureMessages(rawMessages),
                                                        DefaultEntity, DefaultMaxFactsPerRun),
                                         t) } } : TRUE :
        workspaceDir \in {IF event.workspaceDir.isString THEN event.workspaceDir.path ELSE ""},
        rawMessages \in {IF event.messages.isArray THEN event.messages.items ELSE <<>>} } : TRUE

\* "I prefer short lines. Always use tabs. We fixed the build.": "I prefer" is
\* found by the first and by the fourth preference pattern
TextThree ==
  Text(TRUE, <<>>,
       << Match("opinion", 1, <<TokWord("short")>>, TRUE),
          Match("opinion", 3, <<TokWord("tabs")>>, TRUE),
          Match("opinion", 4, <<TokWord("short")>>, TRUE),
          Match("experience", 1, <<TokWord("build")>>, TRUE) >>)

\* "I like tea. I hate noise. We decided to move." after the mention of a
TextMore ==
  Text(TRUE, <<AtMention(<<"a">>)>>,
       << Match("opinion", 1, <<TokWord("tea")>>, TRUE),
          Match("opinion", 2, <<TokWord("noise")>>, TRUE),
          Match("experience", 2, <<TokWord("move")>>, TRUE) >>)

\* "@- I like tea": the mention normalizes to the empty name
TextNoName ==
  Text(TRUE, <<AtMention(<<"-">>)>>, <<Match("opinion", 1, <<TokWord("tea")>>, TRUE)>>)

\* "I like x": shorter than 10 characters
TextShort == Text(FALSE, <<>>, <<Match("opinion", 1, <<TokWord("x")>>, TRUE)>>)

\* "I like it. We completed the long migration": the first content has 2 characters
TextUnfit ==
  Text(TRUE, <<>>,
       << Match("opinion", 1, <<TokWord("it")>>, FALSE),
          Match("experience", 1, <<TokWord("migration")>>, TRUE) >>)

CaptureMessageLists ==
  { <<>>,
    <<CaptureMessage("user", StringContent(TextThree))>>,
    <<CaptureMessage("user", StringContent(TextNoName)),
      CaptureMessage("assistant", StringContent(TextThree))>>,
    <<CaptureMessage("user", StringContent(TextShort)),
      CaptureMessage("user",
                     PartsContent(<<ContentPart("image", FALSE, EmptyText),
                                    ContentPart("text", TRUE, TextUnfit),
                                    ContentPart("text", TRUE, TextMore)>>)),
      CaptureMessage("user", PartsContent(<<ContentPart("text", FALSE, EmptyText)>>)),
      CaptureMessage("tool", OtherContent)>> }

\* one candidate for the default entity, then three for a
UnnamedThenNamed ==
  <<CaptureMessage("user", StringContent(TextUnfit)),
    CaptureMessage("user", StringContent(TextMore))>>

\* "with a, @b: I like tea. We fixed tea"
TextAgain ==
  Text(TRUE, <<WithName(<<"a">>), AtMention(<<"b">>)>>,
       << Match("opinion", 1, <<TokWord("tea")>>, TRUE),
          Match("experience", 1, <<TokWord("tea")>>, TRUE) >>)

\* the second message repeats a preference of the first
RepeatedAcrossMessages ==
  <<CaptureMessage("user", StringContent(TextMore)),
    CaptureMessage("assistant", StringContent(TextAgain))>>

CaptureMaxInputs == {0, 1, 2, NoMaxFacts}

\* the options tried: every list with every limit and the default entity left
\* out, one run with a default entity given, runs whose default entity is "",
\* and one run over messages that repeat a preference and name the default entity
CaptureOptionInputs ==
  { CaptureOptions(messages, UndefinedText, maxFactsPerRun) :
      messages \in CaptureMessageLists, maxFactsPerRun \in CaptureMaxInputs }
  \cup { CaptureOptions(messages, <<"b">>, 2) :
           messages \in {m \in CaptureMessageLists : Len(m) = 1} }
  \cup { CaptureOptions(UnnamedThenNamed, <<>>, maxFactsPerRun) :
           maxFactsPerRun \in {2, NoMaxFacts} }
  \cup { CaptureOptions(RepeatedAcrossMessages, <<"b">>, NoMaxFacts) }

RawMessagesInputs ==
  { RawMessages(FALSE, <<>>),
    RawMessages(TRUE, <<>>),
    RawMessages(TRUE, <<RawMessage(FALSE, "", OtherContent)>>),
    RawMessages(TRUE, <<RawMessage(TRUE, "user", StringContent(TextThree)),
                        RawMessage(FALSE, "", StringContent(TextUnfit)),
                        RawMessage(TRUE, "assistant", StringContent(TextMore))>>) }

WorkspaceDirInputs == {WorkspaceDir(TRUE, "w1"), WorkspaceDir(TRUE, ""), WorkspaceDir(FALSE, "")}

\* the agent:end events of every context, and the events of other types and
\* actions with a context that agent:end would act on
HookEventInputs ==
  { HookEvent("agent", "end", workspaceDir, messages) :
      workspaceDir \in WorkspaceDirInputs, messages \in RawMessagesInputs }
  \cup { HookEvent(type, action, WorkspaceDir(TRUE, "w1"), messages) :
           type \in {"agent", "message"}, action \in {"end", "start"},
           messages \in {m \in RawMessagesInputs : m.isArray /\ Len(m.items) > 1} }

\* a call ran to its end: the store takes what it left, and ret keeps the store
\* from before the call, the number of candidates the run had and its limit
CaptureCompleted(name, input, out, candidates, maxFacts) ==
  /\ opCount < MaxCaptureOps
  /\ files' = out.files
  /\ nextUuid' = out.uuid
  /\ opCount' = opCount + 1
  /\ fn' = name
  /\ arg' = input
  /\ ret' = [before |-> files, at |-> now, ran |-> out.ran, captured |-> out.captured,
             skipped |-> out.skipped, threw |-> out.threw, trace |-> out.trace,
             candidates |-> candidates, maxFactsPerRun |-> maxFacts]
  /\ UNCHANGED <<now, last, codecVars, raceVars, scorerVars, opinionVars, ledgerVars>>

OnAgentEnd ==
  \E event \in HookEventInputs :
    \E out \in {onAgentEnd(files, nextUuid, event, now)} :
      \E candidates \in {extractCandidates(toCaptureMessages(event.messages.items), DefaultEntity)} :
        CaptureCompleted("onAgentEnd", event, out, Len(candidates), DefaultMaxFactsPerRun)

CaptureRun ==
  \E options \in CaptureOptionInputs :
    \E run \in {captureFromAgentEnd(files, nextUuid, options, now)} :
      \E candidates \in {extractCandidates(options.messages, captureDefaults(options).defaultEntity)} :
        CaptureCompleted("captureFromAgentEnd", options,
                         HookOutcome(run.files, run.uuid, Len(options.messages) > 0,
                                     run.captured, run.skipped, run.trace),
                         Len(candidates), captureDefaults(options).maxFactsPerRun)

\* Date.now() moves on between two calls
CaptureTick ==
  /\ now <= opCount + 1
  /\ opCount < MaxCaptureOps
  /\ now' = now + 1
  /\ UNCHANGED <<files, nextUuid, opCount, last, codecVars, raceVars, scorerVars, callVars,
                 opinionVars, ledgerVars>>

CaptureInit ==
  /\ \E store \in {EmptyStore, StoreAB} :
       /\ files = store.files
       /\ nextUuid = store.uuid
  /\ now = 1
  /\ opCount = 0
  /\ last = NoOp
  /\ CodecIdle
  /\ RaceIdle
  /\ ScorerIdle
  /\ CallIdle
  /\ OpinionIdle
  /\ LedgerIdle

CaptureNext == OnAgentEnd \/ CaptureRun \/ CaptureTick

SpecCapture == CaptureInit /\ [][CaptureNext]_vars

\* the event is one the hook acts on
Qualifies(event) ==
  /\ event.type = "agent"
  /\ event.action = "end"
  /\ event.workspaceDir.isString
  /\ event.workspaceDir.path # ""
  /\ event.messages.isArray
  /\ event.messages.items # <<>>

\* C19: onAgentEnd leaves every file of the Entity Store as it was and does not throw
\* unless the event has type agent, action end, a workspaceDir and a non-empty messages
\* list; captureFromAgentEnd with an empty messages list returns captured 0 and skipped 0,
\* writes nothing, and an absent default entity is still absent.
C19_HookActsOnlyOnAgentEnd ==
  /\ (fn = "onAgentEnd" /\ ~Qualifies(arg)) => (files = ret.before /\ ~ret.threw)
  /\ (fn = "captureFromAgentEnd" /\ arg.messages = <<>>) =>
       /\ ret.captured = 0
       /\ ret.skipped = 0
       /\ files = ret.before
       /\ getEntity(ret.before, captureDefaults(arg).defaultEntity, ret.at) = NoEntity
            => getEntity(files, captureDefaults(arg).defaultEntity, now) = NoEntity

\* a message event that carries a workspaceDir and messages with candidates reached
\* the hook while the store held entities
C19_Witness ==
  /\ fn = "onAgentEnd"
  /\ arg.type = "message"
  /\ arg.action = "end"
  /\ arg.workspaceDir = WorkspaceDir(TRUE, "w1")
  /\ ret.candidates > 0
  /\ getEntity(files, <<"a">>, now) # NoEntity

\* the number of facts the records of the store hold
RECURSIVE FactTotal(_, _, _)
FactTotal(fs, keys, t) ==
  IF keys = {} THEN 0
  ELSE LET k == CHOOSE x \in keys : TRUE
           entity == getEntity(fs, k, t)
       IN (IF entity = NoEntity THEN 0 ELSE Len(entity.facts)) + FactTotal(fs, keys \ {k}, t)

\* C20: for every capture run, captured is at most maxFactsPerRun, the store holds at
\* most maxFactsPerRun facts more than before, and when the run extracted more
\* candidates than maxFactsPerRun, skipped is at least the number beyond it.
C20_RunBoundedByMaxFacts ==
  (fn \in {"onAgentEnd", "captureFromAgentEnd"} /\ ret.ran) =>
    /\ ret.captured <= ret.maxFactsPerRun
    /\ FactTotal(files, DOMAIN files, now) - FactTotal(ret.before, DOMAIN ret.before, now)
         <= ret.maxFactsPerRun
    /\ ret.candidates > ret.maxFactsPerRun
         => ret.skipped >= ret.candidates - ret.maxFactsPerRun

\* a run with three candidates and maxFactsPerRun 2 added two facts
C20_Witness ==
  /\ fn = "captureFromAgentEnd"
  /\ ret.candidates = 3
  /\ ret.maxFactsPerRun = 2
  /\ ret.captured = 2
  /\ FactTotal(files, DOMAIN files, now) = FactTotal(ret.before, DOMAIN ret.before, now) + 2

\* ------------------------------------------------------- claims C21 and C29
\* the number of entries of a trace that are (ok = TRUE) or are not "ok"
CountTrace(trace, ok) == Cardinality({i \in DOMAIN trace : (trace[i] = "ok") = ok})

\* C21: when addFactToEntity fails for a candidate, captureFromAgentEnd still returns
\* counts, counts the candidate in skipped, and goes on to the candidates after it:
\* the loop leaves candidates untried only when maxFactsPerRun facts were captured.
C21_FailureSkipsOneCandidate ==
  (fn \in {"onAgentEnd", "captureFromAgentEnd"} /\ ret.ran) =>
    /\ ~ret.threw
    /\ ret.captured = CountTrace(ret.trace, TRUE)
    /\ ret.skipped >= CountTrace(ret.trace, FALSE)
    /\ Len(ret.trace) < ret.candidates => ret.captured >= ret.maxFactsPerRun

\* the first candidate of a run failed and the two after it were captured
C21_Witness ==
  /\ fn = "captureFromAgentEnd"
  /\ Len(ret.trace) >= 3
  /\ ret.trace[1] # "ok"
  /\ ret.trace[2] = "ok"
  /\ ret.trace[3] = "ok"
  /\ ret.captured = 2
  /\ FactTotal(files, DOMAIN files, now) = FactTotal(ret.before, DOMAIN ret.before, now) + 2

\* C29: captured + skipped equals the number of candidates extracted from the
\* messages, whichever candidates fail and whatever maxFactsPerRun is.
C29_EveryCandidateCountedOnce ==
  (fn \in {"onAgentEnd", "captureFromAgentEnd"} /\ ret.ran) =>
    ret.captured + ret.skipped = ret.candidates

\* four candidates, maxFactsPerRun 2, the first fails and the next two are captured:
\* the counts add up to five
C29_Counterexample ==
  /\ fn = "captureFromAgentEnd"
  /\ ret.candidates = 4
  /\ ret.maxFactsPerRun = 2
  /\ ret.trace = <<"NotFound", "ok", "ok">>
  /\ ret.captured = 2
  /\ ret.skipped = 3

\* ---------------------------------------------------------------- claim C22
\* the facts of type opinion that the records of the Entity Store hold
RECURSIVE StoredOpinionFacts(_, _, _)
StoredOpinionFacts(fs, keys, t) ==
  IF keys = {} THEN {}
  ELSE LET k == CHOOSE x \in keys : TRUE
           entity == getEntity(fs, k, t)
       IN (IF entity = NoEntity THEN {}
           ELSE {entity.facts[i] : i \in {j \in DOMAIN entity.facts : entity.facts[j].type = "opinion"}})
          \cup StoredOpinionFacts(fs, keys \ {k}, t)

\* C22: after a capture run, every opinion fact that addFactToEntity wrote to an
\* entity's record is also in the workspace's Opinion Store (bank/opinions.md).
C22_CapturedOpinionInOpinionStore ==
  (fn \in {"onAgentEnd", "captureFromAgentEnd"} /\ ret.ran) =>
    \A f \in StoredOpinionFacts(files, DOMAIN files, now) :
      \E i \in DOMAIN loadOpinions(oFile, now) :
        loadOpinions(oFile, now)[i].fact.content = f.content

\* a run captured a preference: the record of the default entity holds the opinion
\* fact and bank/opinions.md does not exist
C22_Counterexample ==
  /\ fn = "captureFromAgentEnd"
  /\ ret.captured = 1
  /\ ret.trace = <<"ok">>
  /\ getEntity(files, DefaultEntity, now) # NoEntity
  /\ \E i \in DOMAIN getEntity(files, DefaultEntity, now).facts :
       /\ getEntity(files, DefaultEntity, now).facts[i].type = "opinion"
       /\ getEntity(files, DefaultEntity, now).facts[i].confidence = DefaultConfidence
  /\ ~oFile.exists

\* ---------------------------------------------------------------- claim C30
\* both callers are in addFactToEntity for one name that had no file when they entered
TwoAddFactsUnseenName ==
  /\ \A p \in Callers : rCall[p].op = "addFactToEntity" /\ rCall[p].unseen
  /\ RaceKey(1) = RaceKey(2)

\* C30: under any interleaving of two addFactToEntity calls for the same name that
\* the store had not seen, neither call fails with AlreadyExists.
C30_NoAlreadyExistsOnAutoCreate ==
  TwoAddFactsUnseenName => \A p \in Callers : rResult[p] # "AlreadyExists"

\* both calls found no entity; one created the file and added its fact, the other's
\* createEntity found the file and threw
C30_Counterexample ==
  /\ TwoAddFactsUnseenName
  /\ \E p, q \in Callers :
       /\ rResult[p] = "AlreadyExists"
       /\ rResult[q] = "ok"
       /\ PageHasWord(files[RaceKey(q)], RaceMark(q))
       /\ ~PageHasWord(files[RaceKey(q)], RaceMark(p))

\* ---------------------------------------------------------------- claim C27
\* the fields of a fact an update is to leave alone
FrameFactFields(f) ==
  [content |-> f.content, type |-> f.type, confidence |-> f.confidence, source |-> f.source]

\* every element of s occurs in t at least as often as in s
OccursAtLeast(s, t) ==
  \A x \in Range(s) :
    Cardinality({i \in DOMAIN t : t[i] = x}) >= Cardinality({i \in DOMAIN s : s[i] = x})

\* the last call was an update of an existing record whose patch removes nothing:
\* addFactToEntity, linkEntities, or updateEntity with facts to add
LastUpdateRemovesNothing ==
  /\ last.op \in {"addFactToEntity", "linkEntities", "updateEntity"}
  /\ last.op = "updateEntity" => last.fact # NoFact
  /\ last.result = "ok"
  /\ last.before # NoEntity

\* C27: an update changes only what its patch names: every fact the record had before
\* is read back with the same content, type, confidence and source, and every
\* relationship with the same target name, relation and description.
C27_UpdateKeepsOtherFactsAndRelationships ==
  LastUpdateRemovesNothing =>
    /\ getEntity(files, last.name, now) # NoEntity
    /\ OccursAtLeast(MapSeq(last.before.facts, FrameFactFields),
                     MapSeq(getEntity(files, last.name, now).facts, FrameFactFields))
    /\ OccursAtLeast(MapSeq(last.before.relationships, RelationshipFields),
                     MapSeq(getEntity(files, last.name, now).relationships, RelationshipFields))

\* a fact was added to a record that had a fact and a relationship: the fact it had
\* and the relationship it had are read back with a content and a target that
\* the record did not have before
C27_Counterexample ==
  /\ last.op = "addFactToEntity"
  /\ last.result = "ok"
  /\ last.before # NoEntity
  /\ last.before.facts # <<>>
  /\ last.before.relationships # <<>>
  /\ \E i \in DOMAIN last.before.facts :
       \A j \in DOMAIN getEntity(files, last.name, now).facts :
         getEntity(files, last.name, now).facts[j].content # last.before.facts[i].content
  /\ \E i \in DOMAIN last.before.relationships :
       \A j \in DOMAIN getEntity(files, last.name, now).relationships :
         getEntity(files, last.name, now).relationships[j].entity
           # last.before.relationships[i].entity

\* ------------------------------------------- evidence updates (C26, C28)
MaxEvidenceOps == 3

\* the opinion facts added: confidence left out, 0, and 0.7
TrackedId == <<"fact", 1, 0>>
TrackedFactInputs ==
  {Fact(TrackedId, "opinion", <<likes, tea>>, <<<<"a">>>>, confidence, NoPath, 1) :
     confidence \in {NoConf, 0, 700}}

TrackedEvidenceInputs(t) ==
  {Evidence(<<"ev", 0, 0>>, type, strength, t) : type \in EvidenceTypes, strength \in {300, 1000}}

\* the confidence bank/opinions.md holds for the opinion with this id, NoConf when none
storedConfidence(file, id, t) ==
  CHOOSE c \in
    { IF findOpinion(opinions, id) = 0 THEN NoConf
      ELSE opinions[findOpinion(opinions, id)].confidence :
        opinions \in {loadOpinions(file, t)} } : TRUE

\* addOpinion returns; arg notes the confidence the opinion starts with and that no
\* evidence has been given since, fresh that the store held no opinion with the id
EvidenceAddOpinion ==
  \E fact \in TrackedFactInputs :
    \E out \in {addOpinion(oFile, fact, DefaultInitialConfidence, now)} :
      /\ opCount < MaxEvidenceOps
      /\ oFile' = out.file
      /\ opCount' = opCount + 1
      /\ fn' = "addOpinion"
      /\ arg' = [c0 |-> IF fact.confidence = NoConf THEN DefaultInitialConfidence
                        ELSE fact.confidence,
                 evidence |-> <<>>,
                 fresh |-> storedConfidence(oFile, fact.id, now) = NoConf]
      /\ ret' = [result |-> out.result, evidence |-> <<>>,
                 before |-> storedConfidence(oFile, fact.id, now),
                 after |-> storedConfidence(out.file, fact.id, now)]
      /\ UNCHANGED <<files, now, nextUuid, last, oLast, codecVars, raceVars, scorerVars, ledgerVars>>

\* updateConfidence returns; arg keeps the evidence given since the last addOpinion
EvidenceUpdateConfidence ==
  \E evidence \in TrackedEvidenceInputs(now) :
    \E out \in {updateConfidence(oFile, TrackedId, evidence, now)} :
      /\ opCount < MaxEvidenceOps
      /\ fn # "none"
      /\ oFile' = out.file
      /\ opCount' = opCount + 1
      /\ fn' = "updateConfidence"
      /\ arg' = [arg EXCEPT !.evidence = Append(@, evidence)]
      /\ ret' = [result |-> out.result, evidence |-> <<evidence>>,
                 before |-> storedConfidence(oFile, TrackedId, now),
                 after |-> storedConfidence(out.file, TrackedId, now)]
      /\ UNCHANGED <<files, now, nextUuid, last, oLast, codecVars, raceVars, scorerVars, ledgerVars>>

EvidenceTick ==
  /\ now <= opCount
  /\ opCount < MaxEvidenceOps
  /\ now' = now + 1
  /\ UNCHANGED <<files, nextUuid, opCount, last, codecVars, raceVars, scorerVars, callVars,
                 opinionVars, ledgerVars>>

EvidenceInit == OpinionsInit

EvidenceNext ==
  \/ EvidenceAddOpinion
  \/ EvidenceUpdateConfidence
  \/ EvidenceTick

SpecEvidence == EvidenceInit /\ [][EvidenceNext]_vars

\* C26: after addOpinion(fact, c0) on a store without the fact, followed by k
\* updateConfidence calls with evidence e1..ek, the stored confidence is
\* calculateConfidenceFromEvidence(c0, [e1..ek]) (to the two decimals the file keeps).
C26_ConfidenceFromAllEvidenceOnce ==
  (fn \in {"addOpinion", "updateConfidence"} /\ arg.fresh) =>
    toFixed2(storedConfidence(oFile, TrackedId, now))
      = toFixed2(calculateConfidenceFromEvidence(arg.c0, arg.evidence))

\* addOpinion with confidence 0.7, then two updates with supporting evidence of
\* strength 1: the store holds 0.85 where the evidence gives 0.81
C26_Counterexample ==
  /\ fn = "updateConfidence"
  /\ arg.fresh
  /\ arg.c0 = 700
  /\ Len(arg.evidence) = 2
  /\ \A i \in DOMAIN arg.evidence :
       arg.evidence[i].type = "supporting" /\ arg.evidence[i].strength = 1000
  /\ toFixed2(calculateConfidenceFromEvidence(arg.c0, arg.evidence)) = 81
  /\ toFixed2(storedConfidence(oFile, TrackedId, now)) = 85

\* C28: updateConfidence with contradicting evidence never leaves the stored
\* confidence higher than it was, and with supporting evidence never lower,
\* from every stored confidence (0 included) and every stored evidence list.
C28_EvidenceMovesConfidenceOneWay ==
  (fn = "updateConfidence" /\ ret.result = "ok") =>
    /\ ret.evidence[1].type = "contradicting" => ret.after <= ret.before
    /\ ret.evidence[1].type = "supporting" => ret.after >= ret.before

\* contradicting evidence was given for an opinion stored with confidence 0 and
\* the store now holds a confidence above 0
C28_Counterexample ==
  /\ fn = "updateConfidence"
  /\ ret.result = "ok"
  /\ ret.evidence[1].type = "contradicting"
  /\ ret.before = 0
  /\ ret.after > 0

\* ------------------------------------------------------- retrieval: strings
\* A string is the sequence of its characters; a score is in thousandths.

\* [a-z0-9]
AlnumChars ==
  {"a", "b", "c", "d", "e", "f", "g", "h", "i", "j", "k", "l", "m", "n", "o", "p", "q", "r",
   "s", "t", "u", "v", "w", "x", "y", "z", "0", "1", "2", "3", "4", "5", "6", "7", "8", "9"}

RECURSIVE splitFrom(_, _, _, _)
\* the pieces of s from index i on, cur being the piece that ends before i
splitFrom(s, separators, i, cur) ==
  IF i > Len(s) THEN <<cur>>
  ELSE IF s[i] \in separators
       THEN IF i > 1 /\ s[i - 1] \in separators
            THEN splitFrom(s, separators, i + 1, cur)
            ELSE <<cur>> \o splitFrom(s, separators, i + 1, <<>>)
       ELSE splitFrom(s, separators, i + 1, Append(cur, s[i]))

\* s.split(/\s+/)
splitWhitespace(s) == splitFrom(s, Whitespace, 1, <<>>)

RECURSIVE splitEach(_, _, _, _)
\* the pieces of s from index i on when every separator character ends a piece
splitEach(s, separators, i, cur) ==
  IF i > Len(s) THEN <<cur>>
  ELSE IF s[i] \in separators THEN <<cur>> \o splitEach(s, separators, i + 1, <<>>)
       ELSE splitEach(s, separators, i + 1, Append(cur, s[i]))

\* path.split(/[/._-]/)
splitPath(path) == splitEach(path, {"/", ".", "_", "-"}, 1, <<>>)

RECURSIVE join(_, _)
\* words.join(separator)
join(words, separator) ==
  IF words = <<>> THEN <<>>
  ELSE IF Len(words) = 1 THEN words[1]
       ELSE words[1] \o separator \o join(Tail(words), separator)

\* the index from 0 of the first occurrence of part in s, -1 if there is none
indexOf(s, part) ==
  IF \E i \in 0..(Len(s) - Len(part)) : SubSeq(s, i + 1, i + Len(part)) = part
  THEN CHOOSE i \in 0..(Len(s) - Len(part)) :
         /\ SubSeq(s, i + 1, i + Len(part)) = part
         /\ \A j \in 0..(i - 1) : SubSeq(s, j + 1, j + Len(part)) # part
  ELSE -1

\* s.includesText(part)
includesText(s, part) == indexOf(s, part) >= 0

\* the elements of s that satisfy Keep, in order
Filter(s, Keep(_)) == SelectIdx(s, [i \in 1..Len(s) |-> Keep(s[i])], 1)

\* s without the elements that occur earlier in s
Distinct(s) == SelectIdx(s, [i \in 1..Len(s) |-> \A j \in 1..(i - 1) : s[j] # s[i]], 1)

\* array.slice(0, n) for n >= 0
Take(s, n) == SubSeq(s, 1, min(n, Len(s)))

\* array.slice(n) for n >= 0
Drop(s, n) == SubSeq(s, n + 1, Len(s))

\* array.sort((a, b) => b.score - a.score): highest score first, entries of
\* equal score in the order they had
sortByScore(s) ==
  [k \in 1..Len(s) |->
     s[CHOOSE i \in 1..Len(s) :
         Cardinality({j \in 1..Len(s) :
                        \/ s[j].score > s[i].score
                        \/ (s[j].score = s[i].score /\ j < i)}) = k - 1]]

\* --------------------------------------------------------- query expansion
fix == <<"f", "i", "x">>
repair == <<"r", "e", "p", "a", "i", "r">>
resolve == <<"r", "e", "s", "o", "l", "v", "e">>
solve == <<"s", "o", "l", "v", "e">>
correct == <<"c", "o", "r", "r", "e", "c", "t">>
constructor == <<"c", "o", "n", "s", "t", "r", "u", "c", "t", "o", "r">>

\* a value that is no array: what synonyms[term] is for a term that names a
\* property every object inherits
NotAnArray == <<"function">>

\* synonyms[term] || [] (of the table, the entry the model's queries reach)
synonymsOf(term) ==
  CASE term = fix -> <<repair, resolve, solve, correct>>
    [] term = constructor -> NotAnArray
    [] OTHER -> <<>>

RECURSIVE expandTerms(_, _, _, _)
\* the loop of expandQuery over terms[i..]: expandedTerms afterwards, or
\* NotAnArray when termSynonyms.slice is no function
expandTerms(terms, i, expandedTerms, maxTerms) ==
  IF i > Len(terms) THEN expandedTerms
  ELSE IF synonymsOf(terms[i]) = NotAnArray THEN NotAnArray
  ELSE CHOOSE after \in
         { expandTerms(terms, i + 1, withSynonyms, maxTerms) :
             withSynonyms \in
               { CHOOSE added \in
                   { withTerm \o
                       Take(Filter(Distinct(Take(synonymsOf(terms[i]), maxTerms)),
                                   LAMBDA s : s \notin Range(withTerm)),
                            max(0, maxTerms * Len(terms) - Len(withTerm))) :
                       withTerm \in
                         { IF terms[i] \in Range(expandedTerms) THEN expandedTerms
                           ELSE Append(expandedTerms, terms[i]) } } : TRUE } } : TRUE

\* expandQuery(query, maxTerms), confidence left out
expandQuery(query, maxTerms) ==
  CHOOSE out \in
    { CHOOSE built \in
        { IF expandedTerms = NotAnArray
          THEN [threw |-> TRUE, original |-> query, expandedTerms |-> <<>>, expanded |-> <<>>]
          ELSE [threw |-> FALSE, original |-> query,
                expandedTerms |-> Drop(expandedTerms, Len(terms)),
                expanded |-> join(expandedTerms, <<" ">>)] :
            expandedTerms \in {expandTerms(terms, 1, <<>>, maxTerms)} } : TRUE :
        terms \in {Filter(splitWhitespace(MapSeq(query, toLowerCase)),
                          LAMBDA t : Len(t) > 2)} } : TRUE

\* ------------------------------------------------------------ term counts
with == <<"w", "i", "t", "h">>
they == <<"t", "h", "e", "y">>

\* stopWords of expandQueryFromResults (of the list, the words longer than
\* three characters that the model's texts contain)
ResultStopWords == {with}

\* stopWords of extractKeywords: the same list and the pronouns
KeywordStopWords == {with, they}

\* termFreq.set(term, (termFreq.get(term) || 0) + weight): a Map is the
\* sequence of its entries in insertion order
addTermFreq(termFreq, term, weight) ==
  IF \E i \in 1..Len(termFreq) : termFreq[i].term = term
  THEN [i \in 1..Len(termFreq) |->
          IF termFreq[i].term = term
          THEN [termFreq[i] EXCEPT !.score = @ + weight] ELSE termFreq[i]]
  ELSE Append(termFreq, [term |-> term, score |-> weight])

RECURSIVE countWords(_, _, _)
\* for (const word of words): clean the word and count it if that leaves
\* more than two characters
countWords(termFreq, words, weight) ==
  IF words = <<>> THEN termFreq
  ELSE CHOOSE counted \in
         { countWords(IF Len(cleaned) > 2 THEN addTermFreq(termFreq, cleaned, weight)
                      ELSE termFreq,
                      Tail(words), weight) :
             cleaned \in {Filter(Head(words), LAMBDA c : c \in AlnumChars)} } : TRUE

\* text.toLowerCase().split(/\s+/).filter((w) => w.length > 3 && !stopWords.has(w))
contentWords(text, stopWords) ==
  Filter(splitWhitespace(MapSeq(text, toLowerCase)),
         LAMBDA w : Len(w) > 3 /\ w \notin stopWords)

RECURSIVE countTexts(_, _, _)
\* the counting loop over entries [text, weight]
countTexts(termFreq, entries, stopWords) ==
  IF entries = <<>> THEN termFreq
  ELSE CHOOSE counted \in
         { countTexts(counts, Tail(entries), stopWords) :
             counts \in {countWords(termFreq, contentWords(Head(entries).text, stopWords),
                                    Head(entries).weight)} } : TRUE

\* array.slice(-n)
TakeLast(s, n) == SubSeq(s, max(1, Len(s) - n + 1), Len(s))

\* extractKeywords(messages, maxKeywords)
extractKeywords(messages, maxKeywords) ==
  CHOOSE keywords \in
    { MapSeq(Take(sortByScore(termFreq), maxKeywords), LAMBDA e : e.term) :
        termFreq \in
          { countTexts(<<>>,
                       MapSeq(TakeLast(messages, 5),
                              LAMBDA m : [text |-> m.content,
                                          weight |-> IF m.role = "user" THEN 2 ELSE 1]),
                       KeywordStopWords) } } : TRUE

RECURSIVE pushNew(_, _, _)
\* for (const x of candidates) if (!contextTerms.includesText(x) && contextTerms.length < cap) push
pushNew(contextTerms, candidates, cap) ==
  IF candidates = <<>> THEN contextTerms
  ELSE pushNew(IF Head(candidates) \notin Range(contextTerms) /\ Len(contextTerms) < cap
               THEN Append(contextTerms, Head(candidates)) ELSE contextTerms,
               Tail(candidates), cap)

\* a conversation context; an absent field is the empty string or list
\* (the code tests the fields for truthiness or length)
ConversationContext(intent, recentMessages, entities, task) ==
  [intent |-> intent, recentMessages |-> recentMessages, entities |-> entities, task |-> task]

\* contextualizeQuery(query, context), confidence left out: every term
\* pushed to contextTerms is appended to the query after a space
contextualizeQuery(query, context) ==
  CHOOSE out \in
    { [original |-> query, contextTerms |-> contextTerms,
       contextualized |-> query \o Flatten(MapSeq(contextTerms, LAMBDA term : <<" ">> \o term))] :
        contextTerms \in
          { CHOOSE withTask \in
              { pushNew(withEntities,
                        Take(Filter(splitWhitespace(context.task), LAMBDA w : Len(w) > 3), 2),
                        Len(withEntities) + 3) :
                  withEntities \in
                    { CHOOSE e \in
                        { pushNew(withKeywords, Take(context.entities, 3), Len(withKeywords) + 4) :
                            withKeywords \in
                              { pushNew(IF context.intent # <<>> THEN <<context.intent>> ELSE <<>>,
                                        extractKeywords(context.recentMessages, 3), 5) } } :
                        TRUE } } : TRUE } } : TRUE

\* expandQueryFromResults(query, results, maxTerms), confidence left out
expandQueryFromResults(query, results, maxTerms) ==
  IF Len(results) = 0 THEN expandQuery(query, maxTerms)
  ELSE CHOOSE out \in
         { [threw |-> FALSE, original |-> query, expandedTerms |-> expandedTerms,
            expanded |-> query \o <<" ">> \o join(expandedTerms, <<" ">>)] :
             expandedTerms \in
               { CHOOSE sortedTerms \in
                   { Take(Filter(MapSeq(sortByScore(termFreq), LAMBDA e : e.term),
                                 LAMBDA term :
                                   term \notin Range(splitWhitespace(MapSeq(query, toLowerCase)))),
                          maxTerms) :
                       termFreq \in
                         { countTexts(<<>>,
                                      MapSeq(Take(results, 5),
                                             LAMBDA r : [text |-> r.snippet, weight |-> r.score]),
                                      ResultStopWords) } } : TRUE } } : TRUE

\* ---------------------------------------------------------------- re-ranking
NoTopK == -1        \* options.topK undefined
NoMinScore == -1    \* options.minScore undefined

\* a MemorySearchResult
SearchResult(path, startLine, endLine, score, snippet) ==
  [path |-> path, startLine |-> startLine, endLine |-> endLine, score |-> score,
   snippet |-> snippet, source |-> "memory"]

\* the score rerankResults gives a result, in thousandths (each quotient
\* rounded down)
rerankedScore(queryLower, queryTerms, result) ==
  CHOOSE score \in
    { min(1000,
          (result.score * 6) \div 10
          + (IF Len(queryTerms) > 0
             THEN (200 * Cardinality({i \in 1..Len(queryTerms) :
                                        includesText(textLower, queryTerms[i])}))
                    \div Len(queryTerms)
             ELSE 0)
          + (IF includesText(textLower, queryLower) THEN 200 ELSE 0)
          + (IF snippetIndex >= 0 THEN max(0, 100 - snippetIndex) ELSE 0)
          + (IF Len(queryTerms) > 0
             THEN (100 * Cardinality({i \in 1..Len(queryTerms) :
                                        \E k \in 1..Len(pathTerms) :
                                          includesText(pathTerms[k], queryTerms[i])}))
                    \div Len(queryTerms)
             ELSE 0)) :
        textLower \in {MapSeq(result.snippet \o <<" ">> \o result.path, toLowerCase)},
        snippetIndex \in {indexOf(MapSeq(result.snippet, toLowerCase), queryLower)},
        pathTerms \in {splitPath(MapSeq(result.path, toLowerCase))} } : TRUE

\* rerankResults(query, results, options): the results with score the
\* re-ranked score (originalScore and rerankedScore left out)
rerankResults(query, results, options) ==
  CHOOSE out \in
    { Filter(sortByScore(MapSeq(Take(results, IF options.topK = NoTopK THEN Len(results)
                                              ELSE options.topK),
                                LAMBDA r : [r EXCEPT !.score =
                                                       rerankedScore(queryLower, queryTerms, r)])),
             LAMBDA r : r.score >= (IF options.minScore = NoMinScore THEN 0
                                    ELSE options.minScore)) :
        queryLower \in {MapSeq(query, toLowerCase)},
        queryTerms \in {Filter(splitWhitespace(MapSeq(query, toLowerCase)),
                               LAMBDA t : Len(t) > 2)} } : TRUE

\* ------------------------------------------------------ multi-hop retrieval
\* A call of multiHopRetrieval is suspended at `await searchFn(...)`; the
\* frame holds its local variables, the calls of searchFn it has issued, the
\* lists searchFn has answered and, once it has returned, the list it returned.

NoOption == -1     \* an option left undefined

\* maxHops ?? 2, minImprovement ?? 0.05, resultsPerHop ?? 10
MultiHopOptions(maxHops, minImprovement, resultsPerHop) ==
  [maxHops |-> maxHops, minImprovement |-> minImprovement, resultsPerHop |-> resultsPerHop]

\* `${result.path}:${result.startLine}:${result.endLine}`
hopKey(result) == <<result.path, result.startLine, result.endLine>>

\* the body of `for (const result of results)`, had it set the entry whatever
\* the score of the existing one
mergeResult_lastFound(allResults, result, hop, currentQuery) ==
  CHOOSE merged \in
    { IF \E i \in 1..Len(allResults) : hopKey(allResults[i]) = hopKey(result)
      THEN [i \in 1..Len(allResults) |->
              IF hopKey(allResults[i]) = hopKey(result) THEN found ELSE allResults[i]]
      ELSE Append(allResults, found) :
        found \in {[path |-> result.path, startLine |-> result.startLine,
                    endLine |-> result.endLine, score |-> result.score,
                    snippet |-> result.snippet, source |-> result.source,
                    hop |-> hop, query |-> currentQuery]} } : TRUE

\* the body of `for (const result of results)` on the entries of allResults,
\* a Map being the sequence of its values in insertion order
mergeResult(allResults, result, hop, currentQuery) ==
  CHOOSE merged \in
    { IF \E i \in 1..Len(allResults) : hopKey(allResults[i]) = hopKey(result)
      THEN [i \in 1..Len(allResults) |->
              IF hopKey(allResults[i]) = hopKey(result) /\ result.score > allResults[i].score
              THEN found ELSE allResults[i]]
      ELSE Append(allResults, found) :
        found \in {[path |-> result.path, startLine |-> result.startLine,
                    endLine |-> result.endLine, score |-> result.score,
                    snippet |-> result.snippet, source |-> result.source,
                    hop |-> hop, query |-> currentQuery]} } : TRUE

RECURSIVE mergeResults(_, _, _, _)
mergeResults(allResults, results, hop, currentQuery) ==
  IF results = <<>> THEN allResults
  ELSE CHOOSE merged \in
         { mergeResults(one, Tail(results), hop, currentQuery) :
             one \in {mergeResult(allResults, Head(results), hop, currentQuery)} } : TRUE

\* Math.max(...scores) of a list that is not empty
bestScoreOf(allResults) ==
  CHOOSE s \in {allResults[i].score : i \in 1..Len(allResults)} :
    \A i \in 1..Len(allResults) : allResults[i].score <= s

\* the return statement: sort by score, slice(0, resultsPerHop * maxHops)
multiHopReturn(frame) ==
  [frame EXCEPT !.done = TRUE,
                !.results = Take(sortByScore(frame.allResults),
                                 max(0, frame.resultsPerHop * frame.maxHops))]

\* the loop test, had it been hop <= maxHops
multiHopLoop_oneHopMore(frame) ==
  IF frame.hop <= frame.maxHops
  THEN [frame EXCEPT !.calls = Append(@, [query |-> frame.currentQuery,
                                          limit |-> frame.resultsPerHop * 2])]
  ELSE multiHopReturn(frame)

\* the loop test hop < maxHops: the next call of searchFn, or the return
multiHopLoop(frame) ==
  IF frame.hop < frame.maxHops
  THEN [frame EXCEPT !.calls = Append(@, [query |-> frame.currentQuery,
                                          limit |-> frame.resultsPerHop * 2])]
  ELSE multiHopReturn(frame)

\* multiHopRetrieval up to its first await
multiHopRetrieval(query, options) ==
  multiHopLoop([query |-> query,
                maxHops |-> IF options.maxHops = NoOption THEN 2 ELSE options.maxHops,
                minImprovement |-> IF options.minImprovement = NoOption THEN 50
                                   ELSE options.minImprovement,
                resultsPerHop |-> IF options.resultsPerHop = NoOption THEN 10
                                  ELSE options.resultsPerHop,
                hop |-> 0, currentQuery |-> query, previousBestScore |-> 0,
                allResults |-> <<>>, calls |-> <<>>, answers |-> <<>>, done |-> FALSE,
                results |-> <<>>])

\* improvement < minImprovement && hop > 0, had hop 0 not been exempt
noSignificantImprovement_atAnyHop(frame, bestScore) ==
  bestScore - frame.previousBestScore < frame.minImprovement

\* improvement < minImprovement && hop > 0
noSignificantImprovement(frame, bestScore) ==
  bestScore - frame.previousBestScore < frame.minImprovement /\ frame.hop > 0

\* multiHopRetrieval from the await that searchFn answers with results to
\* the next await or the return
multiHopResume(frame, results) ==
  IF Len(results) = 0 THEN multiHopReturn([frame EXCEPT !.answers = Append(@, results)])
  ELSE CHOOSE next \in
         { CHOOSE judged \in
             { IF noSignificantImprovement(frame, bestScore)
               THEN multiHopReturn(merged)
               ELSE IF frame.hop < frame.maxHops - 1
                    THEN CHOOSE step \in
                           { IF Len(expanded.expandedTerms) > 0
                             THEN multiHopLoop([merged EXCEPT
                                                  !.previousBestScore = bestScore,
                                                  !.currentQuery = expanded.expanded,
                                                  !.hop = @ + 1])
                             ELSE multiHopReturn([merged EXCEPT !.previousBestScore = bestScore]) :
                               expanded \in {expandQueryFromResults(frame.currentQuery,
                                                                    results, 2)} } : TRUE
                    ELSE multiHopLoop([merged EXCEPT !.previousBestScore = bestScore,
                                                     !.hop = @ + 1]) :
                 bestScore \in {bestScoreOf(merged.allResults)} } : TRUE :
             merged \in {[frame EXCEPT !.answers = Append(@, results),
                                        !.allResults =
                                          mergeResults(frame.allResults, results, frame.hop,
                                                       frame.currentQuery)]} } : TRUE

\* ---------------------------------------------------------- enhanced search
\* `expansion`, `rerank`, `multiHop`, `contextAware` of EnhancedSearchOptions,
\* an absent one being { enabled: false }
EnhancedSearchOptions(expansion, rerank, multiHop, contextAware) ==
  [expansion |-> expansion, rerank |-> rerank, multiHop |-> multiHop,
   contextAware |-> contextAware]

ExpansionOff == [enabled |-> FALSE, maxTerms |-> NoOption]
RerankOff == [enabled |-> FALSE, topK |-> NoTopK, minScore |-> NoMinScore]
MultiHopOff == [enabled |-> FALSE, maxHops |-> NoOption, minImprovement |-> NoOption,
                resultsPerHop |-> NoOption]
ContextAwareOff == [enabled |-> FALSE, hasContext |-> FALSE,
                    context |-> ConversationContext(<<>>, <<>>, <<>>, <<>>)]

\* reranked.map((r) => ({ path, startLine, endLine, score: r.rerankedScore,
\* snippet, source })), had startLine been taken from r.endLine
toMemorySearchResult_endLine(r) ==
  SearchResult(r.path, r.endLine, r.endLine, r.score, r.snippet)

\* reranked.map((r) => ({ path, startLine, endLine, score: r.rerankedScore, snippet, source }))
toMemorySearchResult(r) ==
  SearchResult(r.path, r.startLine, r.endLine, r.score, r.snippet)

\* step 4 and the return
enhancedSearchReturn(frame, results) ==
  [frame EXCEPT !.done = TRUE,
                !.results =
                  IF frame.options.rerank.enabled /\ Len(results) > 0
                  THEN MapSeq(rerankResults(frame.query, results,
                                            [topK |-> frame.options.rerank.topK,
                                             minScore |-> frame.options.rerank.minScore]),
                              toMemorySearchResult)
                  ELSE results]

\* step 3: the first call of manager.search, or the return when the
\* multi-hop loop runs no iteration
enhancedSearchStep3(frame) ==
  IF frame.options.multiHop.enabled
  THEN CHOOSE next \in
         { IF hops.done THEN enhancedSearchReturn([frame EXCEPT !.hops = hops], hops.results)
           ELSE [frame EXCEPT !.hops = hops, !.calls = hops.calls] :
             hops \in {multiHopRetrieval(frame.searchQuery,
                                         MultiHopOptions(frame.options.multiHop.maxHops,
                                                         frame.options.multiHop.minImprovement,
                                                         frame.options.multiHop.resultsPerHop))} } :
         TRUE
  ELSE [frame EXCEPT !.calls =
          <<[query |-> frame.searchQuery,
             limit |-> IF frame.options.rerank.enabled
                       THEN (IF frame.options.rerank.topK = NoTopK THEN 20
                             ELSE frame.options.rerank.topK) * 2
                       ELSE 10]>>]

\* the frame of a call that has issued no search
NoHops == [done |-> FALSE, calls |-> <<>>, answers |-> <<>>, results |-> <<>>]

\* enhancedSearch up to its first await: steps 1 and 2, then step 3
enhancedSearch(query, options) ==
  CHOOSE frame \in
    { CHOOSE expandedFrame \in
        { IF options.expansion.enabled
          THEN CHOOSE e \in
                 { IF expandedQuery.threw
                   THEN [query |-> query, options |-> options, contextual |-> contextual,
                         searchQuery |-> contextual, threw |-> TRUE, hops |-> NoHops,
                         calls |-> <<>>, done |-> TRUE, results |-> <<>>]
                   ELSE enhancedSearchStep3(
                          [query |-> query, options |-> options, contextual |-> contextual,
                           searchQuery |-> expandedQuery.expanded, threw |-> FALSE,
                           hops |-> NoHops, calls |-> <<>>, done |-> FALSE, results |-> <<>>]) :
                     expandedQuery \in
                       {expandQuery(contextual,
                                    IF options.expansion.maxTerms = NoOption THEN 3
                                    ELSE options.expansion.maxTerms)} } : TRUE
          ELSE enhancedSearchStep3(
                 [query |-> query, options |-> options, contextual |-> contextual,
                  searchQuery |-> contextual, threw |-> FALSE, hops |-> NoHops,
                  calls |-> <<>>, done |-> FALSE, results |-> <<>>]) } : TRUE :
        contextual \in
          { IF options.contextAware.enabled /\ options.contextAware.hasContext
            THEN contextualizeQuery(query, options.contextAware.context).contextualized
            ELSE query } } : TRUE

\* enhancedSearch from the await that manager.search answers with results
\* to the next await or the return
enhancedSearchResume(frame, results) ==
  IF frame.options.multiHop.enabled
  THEN CHOOSE next \in
         { IF hops.done THEN enhancedSearchReturn([frame EXCEPT !.hops = hops], hops.results)
           ELSE [frame EXCEPT !.hops = hops, !.calls = hops.calls] :
             hops \in {multiHopResume(frame.hops, results)} } : TRUE
  ELSE enhancedSearchReturn([frame EXCEPT !.hops.answers = <<results>>], results)

\* ------------------------------------------------- searches, step by step
bad == <<"b", "a", "d">>
Bad == <<"B", "a", "d">>
ab == <<"a", "b">>
memoPath == <<"a", "b", ".", "m", "d">>
fixPath == <<"f", "i", "x", ".", "m", "d">>

\* "fix bad": a term with synonyms
QueryFixBad == join(<<fix, bad>>, <<" ">>)
\* "bad solve": lower case, every term longer than two characters, no synonyms
QueryPlain == join(<<bad, solve>>, <<" ">>)
\* "Bad ab": no synonyms, an upper-case letter and a term of two characters
QueryBadAb == join(<<Bad, ab>>, <<" ">>)
\* "constructor": no entry of the table, the name of an inherited property
QueryConstructor == constructor

SearchQueryInputs == {QueryFixBad, QueryPlain, QueryBadAb, QueryConstructor}

ResultA == SearchResult(memoPath, 1, 2, 500, join(<<repair, solve, resolve, correct>>, <<" ">>))
ResultABetter == [ResultA EXCEPT !.score = 900]
ResultB == SearchResult(fixPath, 3, 4, 700, join(<<Bad, with, fix>>, <<" ">>))

\* the lines of fix.md that follow those of ResultB, with the same words
ResultC == [ResultB EXCEPT !.startLine = 5, !.endLine = 6, !.score = 600]

\* what a base search may answer
SearchResultLists ==
  {<<>>, <<ResultA>>, <<ResultB, ResultA>>, <<ResultABetter>>, <<ResultC, ResultB>>}

MultiHopOptionInputs ==
  { MultiHopOptions(NoOption, NoOption, NoOption),
    MultiHopOptions(3, 0, 1),
    MultiHopOptions(3, 50, NoOption),
    MultiHopOptions(3, 600, 1),
    MultiHopOptions(1, NoOption, 1),
    MultiHopOptions(0, NoOption, NoOption) }

ContextInputs ==
  { ConversationContext(<<>>, <<>>, <<>>, <<>>),
    ConversationContext(solve,
                        <<[role |-> "user", content |-> join(<<they, repair, with, correct>>, <<" ">>)],
                          [role |-> "assistant", content |-> join(<<correct, fix>>, <<" ">>)]>>,
                        <<solve, bad>>,
                        join(<<resolve, fix, repair>>, <<" ">>)) }

ExpansionInputs ==
  {ExpansionOff, [enabled |-> TRUE, maxTerms |-> NoOption], [enabled |-> TRUE, maxTerms |-> 1]}

RerankInputs ==
  {RerankOff, [enabled |-> TRUE, topK |-> NoTopK, minScore |-> NoMinScore],
   [enabled |-> TRUE, topK |-> 1, minScore |-> 400]}

MultiHopInputs ==
  {MultiHopOff} \cup
  { [enabled |-> TRUE, maxHops |-> o.maxHops, minImprovement |-> o.minImprovement,
     resultsPerHop |-> o.resultsPerHop] :
      o \in {MultiHopOptions(NoOption, NoOption, NoOption), MultiHopOptions(3, 0, 1),
             MultiHopOptions(0, NoOption, NoOption)} }

ContextAwareInputs ==
  {ContextAwareOff} \cup
  { [enabled |-> TRUE, hasContext |-> TRUE, context |-> c] : c \in ContextInputs } \cup
  { [enabled |-> TRUE, hasContext |-> FALSE, context |-> ContextAwareOff.context] }

\* every combination of stages with the default parameters, and the other
\* parameters with the other stages off
EnhancedSearchOptionInputs ==
  { EnhancedSearchOptions(e, r, m, c) :
      e \in {ExpansionOff, [enabled |-> TRUE, maxTerms |-> NoOption]},
      r \in {RerankOff, [enabled |-> TRUE, topK |-> NoTopK, minScore |-> NoMinScore]},
      m \in {MultiHopOff, [enabled |-> TRUE, maxHops |-> 3, minImprovement |-> 0,
                           resultsPerHop |-> 1]},
      c \in {ContextAwareOff,
             [enabled |-> TRUE, hasContext |-> TRUE,
              context |-> ConversationContext(solve, <<>>, <<solve, bad>>, <<>>)]} }
  \cup { EnhancedSearchOptions(e, RerankOff, MultiHopOff, ContextAwareOff) : e \in ExpansionInputs }
  \cup { EnhancedSearchOptions(ExpansionOff, r, MultiHopOff, ContextAwareOff) : r \in RerankInputs }
  \cup { EnhancedSearchOptions(ExpansionOff, RerankOff, m, ContextAwareOff) : m \in MultiHopInputs }
  \cup { EnhancedSearchOptions(ExpansionOff, RerankOff, MultiHopOff, c) : c \in ContextAwareInputs }

SearchFrame ==
  UNCHANGED <<storeVars, codecVars, raceVars, scorerVars, opinionVars, ledgerFiles, lLast>>

\* multiHopRetrieval(query, searchFn, options) is called with a search
\* function of the caller's
MultiHopRetrieval ==
  \E query \in {QueryFixBad, QueryPlain}, options \in MultiHopOptionInputs :
    /\ fn = "none"
    /\ fn' = "multiHopRetrieval"
    /\ arg' = [query |-> query, options |-> options]
    /\ ret' = multiHopRetrieval(query, options)
    /\ UNCHANGED scorerCache
    /\ SearchFrame

\* the caller's search function answers
SearchFnReturns ==
  \E results \in SearchResultLists :
    /\ fn = "multiHopRetrieval"
    /\ ~ret.done
    /\ ret' = multiHopResume(ret, results)
    /\ UNCHANGED <<fn, arg, scorerCache>>
    /\ SearchFrame

\* enhancedSearch(manager, query, options) is called with the manager of a workspace
EnhancedSearch ==
  \E query \in SearchQueryInputs, options \in EnhancedSearchOptionInputs, ws \in {"w1"} :
    /\ fn = "none"
    /\ fn' = "enhancedSearch"
    /\ arg' = [query |-> query, options |-> options, workspaceDir |-> ws]
    /\ ret' = enhancedSearch(query, options)
    /\ UNCHANGED scorerCache
    /\ SearchFrame

\* MemoryIndexManager.search answers: before it returns its results it calls
\* recordRetrievalForResults(this.workspaceDir, results)
ManagerSearchReturns ==
  \E results \in SearchResultLists :
    /\ fn = "enhancedSearch"
    /\ ~ret.done
    /\ scorerCache' = recordRetrievalForResults(scorerCache, arg.workspaceDir, results, now)
    /\ ret' = enhancedSearchResume(ret, results)
    /\ UNCHANGED <<fn, arg>>
    /\ SearchFrame

SearchInit ==
  /\ StoreInit
  /\ CodecIdle
  /\ RaceIdle
  /\ ScorerIdle
  /\ LedgerIdle
  /\ OpinionIdle
  /\ CallIdle

SearchNext ==
  \/ MultiHopRetrieval
  \/ SearchFnReturns
  \/ EnhancedSearch
  \/ ManagerSearchReturns

SpecSearch == SearchInit /\ [][SearchNext]_vars

\* multiHopRetrieval with a search function that returns: the answer to a
\* pending call arrives
SpecSearchFair == SearchInit /\ [][SearchNext]_vars /\ WF_vars(SearchFnReturns)

\* ------------------------------------------------------------- claim C23
\* C23: multiHopRetrieval issues at most maxHops calls of the search
\* function (2 when the option is absent), and when every call of the
\* search function returns, multiHopRetrieval returns.
C23_AtMostMaxHopsSearches ==
  /\ [](fn = "multiHopRetrieval" =>
          Len(ret.calls) <= (IF arg.options.maxHops = NoOption THEN 2 ELSE arg.options.maxHops))
  /\ (fn = "multiHopRetrieval") ~> (fn = "multiHopRetrieval" /\ ret.done)

\* a call with maxHops 3 and minImprovement 0 returned after three searches
\* that all answered the same one result
C23_Witness ==
  /\ fn = "multiHopRetrieval"
  /\ ret.done
  /\ arg.options.maxHops = 3
  /\ Len(ret.calls) = 3
  /\ Len(ret.answers) = 3
  /\ \A i \in 1..3 : ret.answers[i] = <<ResultA>>
  /\ Len(ret.results) = 1

SynonymKeys == {fix}

\* no term of the text is a key of the synonym table
NoSynonymForAnyTerm(text) ==
  \A term \in Range(splitWhitespace(MapSeq(text, toLowerCase))) : term \notin SynonymKeys

\* C25: with expansion enabled and no synonym for any term of the query,
\* enhancedSearch does not fail and its first base search receives the query
\* string it receives with expansion disabled and the other options the same.
C25_NoSynonymSkipsExpansion ==
  (/\ fn = "enhancedSearch"
   /\ arg.options.expansion.enabled
   /\ NoSynonymForAnyTerm(ret.contextual)) =>
    /\ ~ret.threw
    /\ Len(ret.calls) >= 1 =>
         ret.calls[1].query
           = enhancedSearch(arg.query, [arg.options EXCEPT !.expansion = ExpansionOff]
                           ).calls[1].query

\* the query "Bad ab" reaches the base search as "bad"
C25_Counterexample ==
  /\ fn = "enhancedSearch"
  /\ arg.query = QueryBadAb
  /\ arg.options.expansion.enabled
  /\ ~arg.options.contextAware.enabled
  /\ ~ret.threw
  /\ Len(ret.calls) >= 1
  /\ ret.calls[1].query = bad

\* the query "constructor" makes the call fail before any base search
C25_CounterexampleThrows ==
  /\ fn = "enhancedSearch"
  /\ arg.query = QueryConstructor
  /\ arg.options.expansion.enabled
  /\ ret.threw
  /\ ret.calls = <<>>

\* ------------------------------------------------------------- claim C31
\* the items of evidence strongest first, items of equal strength in the
\* order listed
StrongestFirst(evidence) ==
  CHOOSE sorted \in { [i \in 1..Len(evidence) |-> evidence[p[i]]] :
                        p \in Permutations(1..Len(evidence)) } :
    \A i, j \in 1..Len(evidence) :
      i < j => \/ sorted[i].strength > sorted[j].strength
               \/ /\ sorted[i].strength = sorted[j].strength
                  /\ \E k, l \in 1..Len(evidence) :
                       k < l /\ evidence[k] = sorted[i] /\ evidence[l] = sorted[j]
               \/ sorted[i] = sorted[j]

RECURSIVE FoldUpdates(_, _)
\* calculateConfidenceUpdate applied item after item in the order given
FoldUpdates(confidence, items) ==
  IF items = <<>> THEN confidence
  ELSE FoldUpdates(calculateConfidenceUpdate(confidence, Head(items).type,
                                             Head(items).strength).confidence,
                   Tail(items))

\* C31: calculateConfidenceFromEvidence(c0, E) is the fold of
\* calculateConfidenceUpdate from c0 over the items of E strongest first; the
\* list E is as it was after the call; and when the items of E have pairwise
\* different strengths, every reordering of E gives the same result.
C31_FoldStrongestFirst ==
  fn = "calculateConfidenceFromEvidence" =>
    /\ ret.confidence = FoldUpdates(arg.initialConfidence, StrongestFirst(arg.evidence))
    /\ ret.evidence = arg.evidence
    /\ (\A i, j \in 1..Len(arg.evidence) :
          i # j => arg.evidence[i].strength # arg.evidence[j].strength) =>
         \A p \in Permutations(1..Len(arg.evidence)) :
           calculateConfidenceFromEvidence(arg.initialConfidence,
                                           [i \in 1..Len(arg.evidence) |-> arg.evidence[p[i]]])
             = ret.confidence

\* three items of different strength and both types were listed weakest
\* first, and folding them in the order listed would have given another value
C31_Witness ==
  /\ fn = "calculateConfidenceFromEvidence"
  /\ Len(arg.evidence) = 3
  /\ arg.evidence[1].strength < arg.evidence[2].strength
  /\ arg.evidence[2].strength < arg.evidence[3].strength
  /\ arg.evidence[2].type = "contradicting"
  /\ ret.confidence = 539
  /\ FoldUpdates(arg.initialConfidence, arg.evidence) = 560

\* ------------------------------------------------------------- claim C32
\* what the file keeps of an evidence list: fact id, type and strength (to
\* two decimals) of each entry, in order
Recorded(evidence) ==
  [i \in 1..Len(evidence) |->
     <<evidence[i].factId, evidence[i].type, toFixed2(evidence[i].strength)>>]

IsPrefix(s, t) == Len(s) <= Len(t) /\ SubSeq(t, 1, Len(s)) = s

\* the stored opinion that find yields for the id, in a store that has one
StoredOpinion(file, id, t) ==
  CHOOSE o \in { opinions[findOpinion(opinions, id)] : opinions \in {loadOpinions(file, t)} } :
    TRUE

HasOpinion(file, id, t) == findOpinion(loadOpinions(file, t), id) # 0

\* C32: updateConfidence(id, e) on a known id leaves the opinion's supporting
\* list with e appended when e.type is supporting and its contradicting list
\* with e appended otherwise, the other list as it was; and whichever of
\* addOpinion and updateConfidence returned last, every opinion stored before
\* the call is stored after it with evidence lists that begin with the
\* entries (fact id, type, strength) they had, in the same positions.
C32_EvidenceListsAppendOnly ==
  oLast.op \in {"addOpinion", "updateConfidence"} =>
    /\ (oLast.op = "updateConfidence" /\ HasOpinion(oLast.before, oLast.factId, now)) =>
         /\ HasOpinion(oFile, oLast.factId, now)
         /\ Recorded(StoredOpinion(oFile, oLast.factId, now).supportingEvidence)
              = Recorded(StoredOpinion(oLast.before, oLast.factId, now).supportingEvidence
                         \o (IF oLast.evidence[1].type = "supporting" THEN oLast.evidence
                             ELSE <<>>))
         /\ Recorded(StoredOpinion(oFile, oLast.factId, now).contradictingEvidence)
              = Recorded(StoredOpinion(oLast.before, oLast.factId, now).contradictingEvidence
                         \o (IF oLast.evidence[1].type = "supporting" THEN <<>>
                             ELSE oLast.evidence))
    /\ \A id \in OpinionIds :
         HasOpinion(oLast.before, id, now) =>
           /\ HasOpinion(oFile, id, now)
           /\ IsPrefix(Recorded(StoredOpinion(oLast.before, id, now).supportingEvidence),
                       Recorded(StoredOpinion(oFile, id, now).supportingEvidence))
           /\ IsPrefix(Recorded(StoredOpinion(oLast.before, id, now).contradictingEvidence),
                       Recorded(StoredOpinion(oFile, id, now).contradictingEvidence))

\* an opinion that had evidence was added again with a fact that names no
\* entity, and the store no longer holds it
C32_Counterexample ==
  /\ oLast.op = "addOpinion"
  /\ oLast.result = "ok"
  /\ oLast.fact.entities = <<>>
  /\ HasOpinion(oLast.before, oLast.factId, now)
  /\ StoredOpinion(oLast.before, oLast.factId, now).supportingEvidence # <<>>
  /\ ~HasOpinion(oFile, oLast.factId, now)

\* ------------------------------------------------------------- claim C33
\* the best score among the first k answers of the search function, 0 for none
BestAfter(answers, k) ==
  CHOOSE best \in {0} \cup UNION {{answers[i][j].score : j \in 1..Len(answers[i])} : i \in 1..k} :
    \A i \in 1..k : \A j \in 1..Len(answers[i]) : answers[i][j].score <= best

\* hop 0 is no stop for lack of improvement: after a first answer that is not
\* empty, with more hops allowed and terms to expand the query by, the
\* second search is issued whatever the score
NoStopAtHopZero ==
  (/\ fn = "multiHopRetrieval"
   /\ Len(ret.answers) = 1
   /\ ret.answers[1] # <<>>
   /\ ret.maxHops > 1
   /\ expandQueryFromResults(arg.query, ret.answers[1], 2).expandedTerms # <<>>) =>
    /\ ~ret.done
    /\ Len(ret.calls) = 2

\* after the answer of a hop h > 0 that raises the best accumulated score by
\* less than minImprovement, no search follows
StopWithoutImprovement ==
  fn = "multiHopRetrieval" =>
    \A k \in 2..Len(ret.answers) :
      BestAfter(ret.answers, k) - BestAfter(ret.answers, k - 1) < ret.minImprovement =>
        Len(ret.calls) <= k

\* every answer so far was the same list, and not the empty one
SameAnswers ==
  /\ ret.answers # <<>>
  /\ ret.answers[1] # <<>>
  /\ \A i \in 1..Len(ret.answers) : ret.answers[i] = ret.answers[1]

\* C33 as stated: no stop for lack of improvement at hop 0; no search after a
\* hop h > 0 that improves the best score by less than minImprovement; and
\* with a search that always returns the same results, not empty, at most
\* two searches, whatever maxHops and minImprovement are.
C33_Original ==
  /\ NoStopAtHopZero
  /\ StopWithoutImprovement
  /\ (fn = "multiHopRetrieval" /\ SameAnswers) => Len(ret.calls) <= 2

\* C33 amended: no stop for lack of improvement at hop 0; no search after a
\* hop h > 0 that improves the best score by less than minImprovement; and
\* when minImprovement is positive, a search that always returns the same
\* results, not empty, is called at most twice.
C33_EarlyStopAfterHopZero ==
  /\ NoStopAtHopZero
  /\ StopWithoutImprovement
  /\ (fn = "multiHopRetrieval" /\ SameAnswers /\ ret.minImprovement > 0) => Len(ret.calls) <= 2

\* with maxHops 3 and minImprovement 0.6 the first answer scored 0.5 and the
\* second search was made; the second answer raised the best score by 0.4
\* and the call returned after two searches
C33_Witness ==
  /\ fn = "multiHopRetrieval"
  /\ ret.done
  /\ ret.maxHops = 3
  /\ ret.minImprovement = 600
  /\ Len(ret.calls) = 2
  /\ Len(ret.answers) = 2
  /\ BestAfter(ret.answers, 1) = 500
  /\ BestAfter(ret.answers, 2) = 900


\* ---------------------------------------------------------------------------
\* claim C34
\* ---------------------------------------------------------------------------

\* the number of searches a run of multiHopRetrieval issued
hopsRun == Len(ret.calls)

SortedByScoreDescending(results) ==
  \A i \in 1..Len(results) : \A j \in i..Len(results) : results[i].score >= results[j].score

\* results holds the best count entries of allResults, or all of them when
\* there are fewer
BestOf(results, allResults, count) ==
  /\ Len(results) = min(Len(allResults), max(0, count))
  /\ \A i \in 1..Len(results) : \E j \in 1..Len(allResults) : results[i] = allResults[j]
  /\ \A j \in 1..Len(allResults) :
       (\E i \in 1..Len(results) : results[i] = allResults[j])
         \/ \A i \in 1..Len(results) : results[i].score >= allResults[j].score

\* C34: multiHopRetrieval returns the accumulated results sorted by score
\* descending and truncated to resultsPerHop x hopsRun, hopsRun being the
\* number of searches it issued and not the configured maxHops.
C34_TruncatedToHopsRun ==
  (fn = "multiHopRetrieval" /\ ret.done) =>
    /\ SortedByScoreDescending(ret.results)
    /\ BestOf(ret.results, ret.allResults, ret.resultsPerHop * hopsRun)

\* what the return statement does: truncation to resultsPerHop x maxHops
C34_TruncatedToMaxHops ==
  (fn = "multiHopRetrieval" /\ ret.done) =>
    /\ SortedByScoreDescending(ret.results)
    /\ BestOf(ret.results, ret.allResults, ret.resultsPerHop * ret.maxHops)

\* one search was issued with resultsPerHop 1 and two results are returned
C34_Counterexample ==
  /\ fn = "multiHopRetrieval"
  /\ ret.done
  /\ ret.resultsPerHop = 1
  /\ hopsRun = 1
  /\ Len(ret.results) = 2


\* ---------------------------------------------------------------------------
\* claim C35
\* ---------------------------------------------------------------------------

\* the scores the searches answered so far gave the key
ScoresFor(answers, key) ==
  UNION { { answers[i][j].score : j \in { k \in 1..Len(answers[i]) : hopKey(answers[i][k]) = key } } :
          i \in 1..Len(answers) }

\* C35: after every hop of multiHopRetrieval the accumulator holds at most one
\* entry for a key (path, startLine, endLine), the entry's score is the
\* highest score any hop so far returned for the key, and every key a hop
\* returned is still in the accumulator.
C35_OneEntryPerKeyWithBestScore ==
  fn = "multiHopRetrieval" =>
    /\ \A i, j \in 1..Len(ret.allResults) :
         hopKey(ret.allResults[i]) = hopKey(ret.allResults[j]) => i = j
    /\ \A i \in 1..Len(ret.allResults) :
         /\ ret.allResults[i].score \in ScoresFor(ret.answers, hopKey(ret.allResults[i]))
         /\ \A s \in ScoresFor(ret.answers, hopKey(ret.allResults[i])) :
              s <= ret.allResults[i].score
    /\ \A i \in 1..Len(ret.answers) : \A j \in 1..Len(ret.answers[i]) :
         \E k \in 1..Len(ret.allResults) :
           hopKey(ret.allResults[k]) = hopKey(ret.answers[i][j])

\* the second hop returned a key of the first hop with a lower score, and
\* another hop followed
C35_Witness ==
  /\ fn = "multiHopRetrieval"
  /\ Len(ret.answers) = 3
  /\ ret.answers[1] = <<ResultABetter>>
  /\ ret.answers[2] = <<ResultB, ResultA>>
  /\ Len(ret.allResults) >= 2
  /\ \E i \in 1..Len(ret.allResults) :
       hopKey(ret.allResults[i]) = hopKey(ResultA) /\ ret.allResults[i].score = 900


\* ---------------------------------------------------------------------------
\* claim C36
\* ---------------------------------------------------------------------------

\* the query after context augmentation, when that stage is enabled and a
\* context is given
AfterContextStage(query, options) ==
  IF options.contextAware.enabled /\ options.contextAware.hasContext
  THEN contextualizeQuery(query, options.contextAware.context).contextualized
  ELSE query

\* the query after expansion of the context-augmented query, when expansion
\* is enabled
AfterQueryStages(query, options) ==
  IF options.expansion.enabled
  THEN expandQuery(AfterContextStage(query, options),
                   IF options.expansion.maxTerms = NoOption THEN 3
                   ELSE options.expansion.maxTerms).expanded
  ELSE AfterContextStage(query, options)

\* what re-ranking makes of the results of the search, when it is enabled
AfterRerankStage(query, options, results) ==
  IF options.rerank.enabled /\ Len(results) > 0
  THEN MapSeq(rerankResults(query, results, [topK |-> options.rerank.topK,
                                             minScore |-> options.rerank.minScore]),
              toMemorySearchResult)
  ELSE results

EveryStageDisabled(options) ==
  /\ ~options.contextAware.enabled
  /\ ~options.expansion.enabled
  /\ ~options.multiHop.enabled
  /\ ~options.rerank.enabled

\* the stages in their order: the first search receives the query of the last
\* enabled query stage, and results appear only once the search has returned
StagesInOrder ==
  /\ ret.calls # <<>> => ret.calls[1].query = AfterQueryStages(arg.query, arg.options)
  /\ ~ret.done => ret.results = <<>>
  /\ (ret.done /\ ~arg.options.multiHop.enabled /\ ret.hops.answers # <<>>) =>
       ret.results = AfterRerankStage(arg.query, arg.options, ret.hops.answers[1])

\* the number of calls of the base search
SearchCallCount ==
  /\ (ret.done /\ ~arg.options.multiHop.enabled) => Len(ret.calls) = 1
  /\ arg.options.multiHop.enabled =>
       Len(ret.calls) <= max(0, IF arg.options.multiHop.maxHops = NoOption THEN 2
                                ELSE arg.options.multiHop.maxHops)

\* with every stage disabled the result is the answer to the unmodified query
PlainSearchUnchanged ==
  (ret.done /\ EveryStageDisabled(arg.options)) =>
    /\ Len(ret.calls) = 1
    /\ ret.calls[1].query = arg.query
    /\ Len(ret.hops.answers) = 1
    /\ ret.results = ret.hops.answers[1]

\* C36: enhancedSearch runs its enabled stages in the order context
\* augmentation, query expansion, search, re-ranking; with multi-hop disabled
\* the base search is called exactly once, with multi-hop enabled at most
\* maxHops times, and with every stage disabled the result is the base
\* search's result for the unmodified query, unchanged.
C36_StagesInOrderSearchOnce ==
  fn = "enhancedSearch" => (StagesInOrder /\ SearchCallCount /\ PlainSearchUnchanged)

\* the same for the calls in which query expansion does not throw
C36_UnlessExpansionThrows ==
  (fn = "enhancedSearch" /\ ~ret.threw) =>
    (StagesInOrder /\ SearchCallCount /\ PlainSearchUnchanged)

\* a call with multi-hop disabled ended without any search
C36_Counterexample ==
  /\ fn = "enhancedSearch"
  /\ ret.done
  /\ ~arg.options.multiHop.enabled
  /\ arg.options.expansion.enabled
  /\ arg.query = QueryConstructor
  /\ ret.calls = <<>>

\* context augmentation, expansion, one search and re-ranking, all enabled
C36_AllStagesRun ==
  /\ fn = "enhancedSearch"
  /\ ret.done
  /\ arg.options.contextAware.enabled /\ arg.options.contextAware.hasContext
  /\ arg.options.expansion.enabled
  /\ arg.options.rerank.enabled
  /\ ~arg.options.multiHop.enabled
  /\ ret.contextual # arg.query
  /\ ret.searchQuery # ret.contextual
  /\ Len(ret.calls) = 1
  /\ ret.results # <<>>
  /\ ret.results # ret.hops.answers[1]


\* ---------------------------------------------------------------------------
\* claim C37
\* ---------------------------------------------------------------------------

\* the candidates the run extracted from its messages
RunCandidates ==
  IF fn = "onAgentEnd"
  THEN extractCandidates(toCaptureMessages(arg.messages.items), DefaultEntity)
  ELSE extractCandidates(arg.messages, captureDefaults(arg).defaultEntity)

\* the facts a record of the store holds, none when there is no such record
FactsOf(fs, k, t) ==
  IF k \notin DOMAIN fs THEN <<>>
  ELSE LET entity == getEntity(fs, k, t)
       IN IF entity = NoEntity THEN <<>> ELSE entity.facts

\* the words of a stored content, without what the page appends to them
ContentWords(content) == SelectSeq(content, LAMBDA tok : tok[1] = "w")

\* how many of the facts have the type and the words
HeldTimes(facts, type, words) ==
  Cardinality({i \in DOMAIN facts :
                 facts[i].type = type /\ ContentWords(facts[i].content) = words})

\* what the run added to the store: for every record, type and content that
\* the record holds more often than before the run, the number of times more
RunAdded ==
  LET after == [k \in DOMAIN files |-> FactsOf(files, k, now)]
      before == [k \in DOMAIN files |->
                   IF k \in DOMAIN ret.before /\ ret.before[k] = files[k] THEN after[k]
                   ELSE FactsOf(ret.before, k, ret.at)]
      held == UNION { { [entity |-> k, type |-> after[k][i].type,
                         content |-> ContentWords(after[k][i].content),
                         count |-> HeldTimes(after[k], after[k][i].type,
                                               ContentWords(after[k][i].content))
                                     - HeldTimes(before[k], after[k][i].type,
                                                   ContentWords(after[k][i].content))] :
                        i \in DOMAIN after[k] } : k \in DOMAIN files }
  IN {x \in held : x.count > 0}

\* C37: within one capture run no two extracted candidates have the same fact
\* type and the same first 80 characters of content (the contents of the
\* model's texts are shorter than 80 characters), whatever patterns and
\* messages matched; so the run adds no content twice for one type.
C37_NoCandidateTwice ==
  (fn \in {"onAgentEnd", "captureFromAgentEnd"} /\ ret.ran) =>
    LET candidates == RunCandidates
        added == RunAdded
    IN /\ \A i, j \in 1..Len(candidates) :
            (candidates[i].type = candidates[j].type
               /\ candidates[i].content = candidates[j].content) => i = j
       /\ \A x, y \in added :
            /\ x.count = 1
            /\ (x.type = y.type /\ x.content = y.content) => x = y

\* a preference of the first message was matched again in the second, where the
\* same words were also matched as an experience: four candidates, four facts
C37_Witness ==
  /\ fn = "captureFromAgentEnd"
  /\ arg.messages = RepeatedAcrossMessages
  /\ ret.candidates = 4
  /\ ret.captured = 4
  /\ Cardinality(RunAdded) = 4
  /\ Cardinality({x \in RunAdded : x.content = <<TokWord("tea")>>}) = 2

\* ---------------------------------------------------------------------------
\* claim C38
\* ---------------------------------------------------------------------------

\* the messages and the default entity of the run
RunMessages ==
  IF fn = "onAgentEnd" THEN toCaptureMessages(arg.messages.items) ELSE arg.messages

RunDefaultEntity ==
  IF fn = "onAgentEnd" THEN DefaultEntity ELSE captureDefaults(arg).defaultEntity

\* the text of message i yields a candidate of this type and content
Yields(i, type, content) ==
  LET text == extractTextFromContent(RunMessages[i].content)
  IN /\ text.long
     /\ \E m \in DOMAIN text.matches :
          /\ text.matches[m].fits
          /\ text.matches[m].kind = type
          /\ text.matches[m].content = content

\* the text of the message a candidate came from: the first that yields it
SourceText(type, content) ==
  extractTextFromContent(
    RunMessages[CHOOSE i \in DOMAIN RunMessages :
                  /\ Yields(i, type, content)
                  /\ \A j \in 1..(i - 1) : ~Yields(j, type, content)].content)

\* the first entity reference of a text, of either style
FirstReference(text) ==
  IF text.mentions = <<>> THEN RunDefaultEntity ELSE text.mentions[1].name

\* the first @name of a text, or without any its first "with Name"
FirstAtMentionOrWithName(text) ==
  IF \E i \in DOMAIN text.mentions : text.mentions[i].style = "at"
  THEN text.mentions[CHOOSE i \in DOMAIN text.mentions :
                       /\ text.mentions[i].style = "at"
                       /\ \A j \in 1..(i - 1) : text.mentions[j].style # "at"].name
  ELSE FirstReference(text)

\* no record of the default entity comes into being
NoDefaultEntityCreated ==
  getEntity(ret.before, RunDefaultEntity, ret.at) = NoEntity
    => getEntity(files, RunDefaultEntity, now) = NoEntity

\* the claim as stated: the first reference of either style decides
C38_Original ==
  (fn \in {"onAgentEnd", "captureFromAgentEnd"} /\ ret.ran) =>
    LET added == RunAdded
        candidates == RunCandidates
    IN /\ \A x \in added :
            x.entity = normalizeEntityName(FirstReference(SourceText(x.type, x.content)))
       /\ (\A i \in 1..Len(candidates) :
             SourceText(candidates[i].type, candidates[i].content).mentions # <<>>)
            => NoDefaultEntityCreated

\* C38: each captured fact is stored on exactly one entity: the first @name of
\* the message it came from, without an @name the first "with Name" of that
\* message, and without any reference the configured default entity; when
\* every candidate's message carries a reference and none of the entities so
\* chosen is the default entity, no record is created for the default entity.
C38_StoredOnFirstAtMentionOrWithName ==
  (fn \in {"onAgentEnd", "captureFromAgentEnd"} /\ ret.ran) =>
    LET added == RunAdded
        candidates == RunCandidates
    IN /\ \A x \in added :
            x.entity = normalizeEntityName(
                         FirstAtMentionOrWithName(SourceText(x.type, x.content)))
       /\ (\A i \in 1..Len(candidates) :
             LET text == SourceText(candidates[i].type, candidates[i].content)
             IN /\ text.mentions # <<>>
                /\ normalizeEntityName(FirstAtMentionOrWithName(text))
                     # normalizeEntityName(RunDefaultEntity))
            => NoDefaultEntityCreated

\* a fact of a message that reads "with a" before "@b" is stored on b, and
\* nowhere else
C38_Witness ==
  /\ fn = "captureFromAgentEnd"
  /\ arg.messages = RepeatedAcrossMessages
  /\ SourceText("experience", <<TokWord("tea")>>).mentions
       = <<WithName(<<"a">>), AtMention(<<"b">>)>>
  /\ {x.entity : x \in {y \in RunAdded : y.type = "experience"
                                          /\ y.content = <<TokWord("tea")>>}} = {<<"b">>}

====
